---- MODULE Spec2Model ----
(***************************************************************************)
(* Plan-generation core of ConstruyeSeguro (backend/services/              *)
(* plan_generator.py), modelled as the pipeline generate_project_package   *)
(* runs over one validated brief (Spec), plus specifications that apply    *)
(* _build_room_program (SpecRooms), _layout_rooms (SpecLayout),            *)
(* _estimate_materials (SpecEstimate) and _build_manual (SpecManual) to    *)
(* wider inputs, run the pipeline behind validate_project_payload          *)
(* (SpecRequest) and run it twice on one brief (SpecRepeat).               *)
(*                                                                         *)
(* Numbers.  Python floats are modelled in fixed point:                    *)
(*   lengths   in micrometres (recorded positions/dimensions in cm, as     *)
(*             round(x, 2) leaves them),                                   *)
(*   areas     in whole square metres (every preset area is an integer),   *)
(*   money     in centavos,                                                *)
(*   factors   and scores in millionths (Unit = 1.0).                      *)
(* Quotients are truncated to the unit; round(x, 2) is round-half-even.    *)
(***************************************************************************)
EXTENDS Integers, Sequences, FiniteSets, TLC

VARIABLES brief, pc, rooms, total_area, plans, materials, viability, layout,
          manual, alerts, videos, earlier

\* The renderer's label of one room (_create_svg): the room drawn, the lines
\* of its name and the two locals of the fitting loop.
VARIABLES label_room, label_lines, font_size, line_height

label_vars == <<label_room, label_lines, font_size, line_height>>

\* Invocations of generate_project_package running side by side: the list
\* object marketplace.SAFETY_ALERTS (its current content) and, per invocation,
\* its brief, position and locals.
VARIABLES safety_alerts, calls

call_vars == <<safety_alerts, calls>>

\* The web layer (backend/routes.py over backend/database.py): the tables
\* users, sessions, user_projects, manual_downloads, project_hires and
\* video_watch_history (the table videos is the catalog above), the manual
\* files on disk, every token issued and every token a logout was served
\* with, the register calls between their look-up and their insert, and the
\* response to the last request.
VARIABLES users, sessions, user_projects, manual_downloads, project_hires,
          video_watch_history, files, issued, revoked, registering, response

tables ==
    <<users, sessions, user_projects, manual_downloads, project_hires,
      video_watch_history, files>>

web_vars == <<tables, issued, revoked, registering, response>>

\* What the plan generator's own steps never touch.
outside_core == <<label_vars, call_vars, web_vars>>

vars ==
    <<brief, pc, rooms, total_area, plans, materials, viability, layout,
      manual, alerts, videos, earlier, outside_core>>

(* ---------------------------------------------------------------- bounds *)

\* Longest list of requested rooms in a generated brief.
MaxRooms == 2

\* Longest room list handed to _layout_rooms in the layout specification.
MaxLayoutRooms == 3

\* Longest list of room names handed to _build_room_program on its own.
MaxNames == 3

\* Longest list of material items handed to _build_manual on its own.
MaxItems == 4

\* Most words in a room name handed to the renderer's label.
MaxWords == 4

\* Invocations of generate_project_package running side by side.
MaxCalls == 2

(* ------------------------------------------------------ numeric helpers *)

Unit == 10 ^ 6

Min(a, b) == IF a <= b THEN a ELSE b

Max(a, b) == IF a >= b THEN a ELSE b

Abs(a) == IF a >= 0 THEN a ELSE 0 - a

\* round(num/den) to the nearest integer, ties to even (Python's round).
RoundHalfEven(num, den) ==
    LET q == num \div den
        r == num % den
    IN  IF 2 * r < den THEN q
        ELSE IF 2 * r > den THEN q + 1
        ELSE IF q % 2 = 0 THEN q ELSE q + 1

RECURSIVE SqrtSearch(_, _, _)
SqrtSearch(n, lo, hi) ==
    IF lo >= hi THEN lo
    ELSE LET mid == (lo + hi + 1) \div 2
         IN  IF mid * mid <= n THEN SqrtSearch(n, mid, hi)
             ELSE SqrtSearch(n, lo, mid - 1)

\* floor(math.sqrt(n)) for 0 <= n < 2^31.
ISqrt(n) == SqrtSearch(n, 0, Min(n, 46340))

\* math.sqrt(num/den) rounded to the nearest integer.
SqrtRound(num, den) ==
    LET f == ISqrt(num \div den)
    IN  IF 4 * num >= (2 * f + 1) * (2 * f + 1) * den THEN f + 1 ELSE f

RECURSIVE DivDigits(_, _, _)
DivDigits(r, b, k) ==
    IF k = 0 THEN 0
    ELSE DivDigits((r * 10) % b, b, k - 1) + ((r * 10) \div b) * (10 ^ (k - 1))

\* a / b as a factor in millionths, truncated (digit-by-digit long division,
\* so that the intermediate products stay inside 32 bits).
DivFix(a, b) == (a \div b) * Unit + DivDigits(a % b, b, 6)

\* sorted(seq, key=...): the stable ascending order of the positions of keys;
\* position i comes before j when its key is smaller, or equal and i < j.
SortedPositions(keys) ==
    LET n == Len(keys)
        Before(i) == {j \in 1..n : keys[j] < keys[i] \/ (keys[j] = keys[i] /\ j < i)}
    IN  [r \in 1..n |-> CHOOSE i \in 1..n : Cardinality(Before(i)) = r - 1]

\* round(100 * a / b) to the nearest integer, ties to even, dividing in two
\* stages so that the products stay inside 32 bits (b < 2^31 / 100).
RoundCentiDiv(a, b) ==
    LET r0 == a % b
        q == (a \div b) * 100 + (r0 * 100) \div b
        r == (r0 * 100) % b
    IN  IF 2 * r < b THEN q
        ELSE IF 2 * r > b THEN q + 1
        ELSE IF q % 2 = 0 THEN q ELSE q + 1

\* math.sqrt(n) in millionths: the integer root of n * 10^6 and one Newton
\* correction from its remainder (error below one millionth for n >= 1).
SqrtFix(n) ==
    IF n = 0 THEN 0
    ELSE LET s == ISqrt(n * 1000000)
             rem == n * 1000000 - s * s
         IN  s * 1000 + (rem * 1000) \div (2 * s)

RECURSIVE SumSeq(_)
SumSeq(s) == IF s = <<>> THEN 0 ELSE Head(s) + SumSeq(Tail(s))

(* ------------------------------------------------------------- catalogs *)

\* A room name is its text plus the letter case it is written in; str.lower()
\* and str.title() change the case and keep the text.
Cases == {"lower", "title", "upper"}

Name(text, case) == [text |-> text, case |-> case]

Lower(name) == [name EXCEPT !.case = "lower"]

Title(name) == [name EXCEPT !.case = "title"]

\* key in dict: the keys of the catalogs are lower-case strings.
Has(table, name) == name.case = "lower" /\ name.text \in DOMAIN table

\* dict.get(key, default)
Get(table, name, default) ==
    IF Has(table, name) THEN table[name.text] ELSE default

None == "None"

Preset(area, type) == [area |-> area, type |-> type]

ROOM_PRESETS ==
    ("cocina" :> Preset(12, "wet")) @@
    ("baño" :> Preset(6, "wet")) @@
    ("baño completo" :> Preset(7, "wet")) @@
    ("recámara" :> Preset(14, "private")) @@
    ("recámara principal" :> Preset(18, "private")) @@
    ("patio" :> Preset(10, "outdoor")) @@
    ("sala" :> Preset(16, "social")) @@
    ("comedor" :> Preset(12, "social")) @@
    ("estudio" :> Preset(9, "social")) @@
    ("área de lavado" :> Preset(8, "service")) @@
    ("cochera" :> Preset(18, "service")) @@
    ("terraza" :> Preset(14, "outdoor"))

ROOM_GUIDES ==
    ("cocina" :> "acabados_finales") @@
    ("baño" :> "instalaciones_seguras") @@
    ("baño completo" :> "instalaciones_seguras") @@
    ("recámara" :> "levantamiento_muros") @@
    ("recámara principal" :> "levantamiento_muros") @@
    ("patio" :> "ventilacion_iluminacion") @@
    ("sala" :> "levantamiento_muros") @@
    ("comedor" :> "levantamiento_muros") @@
    ("estudio" :> "levantamiento_muros") @@
    ("área de lavado" :> "preparacion_terreno") @@
    ("cochera" :> "preparacion_terreno") @@
    ("terraza" :> "ventilacion_iluminacion")

Template(idx, name, climates, mats, max_levels, base_cost) ==
    [idx |-> idx, name |-> name, climates |-> climates, materials |-> mats,
     max_levels |-> max_levels, base_cost |-> base_cost]

PLAN_TEMPLATES ==
    << Template(1, "Proyecto A - Compacto", {"templado", "seco"},
                {"block", "concreto"}, 2, 7800),
       Template(2, "Proyecto B - Bioclimático", {"cálido", "húmedo"},
                {"madera", "adobe"}, 2, 6900),
       Template(3, "Proyecto C - Modular", {"templado", "cálido", "seco"},
                {"concreto", "block"}, 3, 8400) >>

\* Unit cost per square metre, in pesos.
MATERIAL_COSTS ==
    ("concreto" :> 2800) @@ ("block" :> 2400) @@ ("madera" :> 2100) @@
    ("adobe" :> 1800)

\* Climate factors in hundredths (1.08 is 108).
CLIMATE_FACTORS ==
    ("templado" :> 100) @@ ("cálido" :> 108) @@ ("húmedo" :> 112) @@
    ("seco" :> 95)

\* Preference weights in hundredths (0.05 is 5).
PREFERENCE_WEIGHTS ==
    ("ventilación natural" :> 5) @@ ("iluminación natural" :> 5) @@
    ("energía solar" :> 3) @@ ("captación de agua" :> 2)

\* (threshold in hundredths, status); the messages are named by their band.
VIABILITY_MESSAGES ==
    << <<85, "Excelente viabilidad, el proyecto puede iniciar de inmediato.">>,
       <<70, "Viabilidad alta, revisa los detalles de acabados y tiempos.">>,
       <<55, "Viabilidad media, considera ajustar materiales o presupuesto.">>,
       <<0, "Viabilidad limitada, se recomiendan ajustes antes de construir.">> >>

(* ----------------------------------------------------- _build_room_program *)

Room(name, area, type, guide) ==
    [name |-> name, area |-> area, type |-> type, guide |-> guide]

\* The lookups made with the name as given, not lower-cased.
room_for_space_case_sensitive(space) ==
    IF Has(ROOM_PRESETS, space)
    THEN LET preset == ROOM_PRESETS[space.text]
         IN  Room(Title(space), preset.area, preset.type, Get(ROOM_GUIDES, space, None))
    ELSE Room(Title(space), 10, "general", Get(ROOM_GUIDES, space, None))

\* One iteration of the loop over selected_spaces.
room_for_space(space) ==
    LET normalized == Lower(space)
        guide == Get(ROOM_GUIDES, normalized, None)
    IN  IF Has(ROOM_PRESETS, normalized)
        THEN LET preset == ROOM_PRESETS[normalized.text]
             IN  Room(Title(space), preset.area, preset.type, guide)
        ELSE Room(Title(space), 10, "general", guide)

RECURSIVE rooms_for_spaces(_)
rooms_for_spaces(spaces) ==
    IF spaces = <<>> THEN <<>>
    ELSE <<room_for_space(Head(spaces))>> \o rooms_for_spaces(Tail(spaces))

\* The list as built by the loop, with no room synthesized for an empty one.
build_room_program_no_default(selected_spaces) == rooms_for_spaces(selected_spaces)

build_room_program(selected_spaces) ==
    LET listed == rooms_for_spaces(selected_spaces)
    IN  IF listed = <<>>
        THEN << Room(Name("sala-comedor", "title"), 28, "social",
                     "levantamiento_muros") >>
        ELSE listed

(* -------------------------------------------------------------------- dicts *)

\* A dict is a record of values together with the set `keys` of the keys it
\* holds: the value recorded under a name outside `keys` is never read.
\* form_data[key] raises KeyError exactly when the key is not held.
KeyError(form_data, subscripts) == ~(subscripts \subseteq form_data.keys)

\* form_data.get(key, default)
get(form_data, key, default) ==
    IF key \in form_data.keys THEN form_data[key] ELSE default

(* ------------------------------------------------------------ video catalog *)

\* The catalog rows in the order list_videos() returns them; a row keeps the
\* columns the core's callers read.
Video(id, category, manual_step) ==
    [id |-> id, category |-> category, manual_step |-> manual_step]

\* Python's None where a video is expected.
NoVideo == Video(0, None, None)

LEVEL_ALIASES ==
    ("principiante" :> "cimientos") @@ ("intermedio" :> "estructura")
    @@ ("avanzado" :> "acabados")

list_videos(catalog, category) ==
    SelectSeq(catalog, LAMBDA video : video.category = category)

get_manual_videos(level, catalog) ==
    LET rows == list_videos(catalog, LEVEL_ALIASES[level])
        found == IF rows = <<>> THEN catalog ELSE rows
    IN  SubSeq(found, 1, Min(3, Len(found)))

get_step_video(level, catalog) ==
    LET found == get_manual_videos(level, catalog)
    IN  IF found = <<>> THEN NoVideo ELSE found[1]

get_video_by_manual_step(manual_step, catalog) ==
    LET found == SelectSeq(catalog, LAMBDA video : video.manual_step = manual_step)
    IN  IF manual_step = None \/ found = <<>> THEN NoVideo ELSE found[1]

(* ------------------------------------------------------------ _layout_rooms *)

\* Lengths in micrometres; Cm is one centimetre.
Cm == 10 ^ 4

Margin == 1200000

MinEnvelope == 6000000

Corridor == 800000

MinRoomSide == 2600000

MinClipWidth == 2400000

TypeOrder(type) ==
    CASE type = "social" -> 0
      [] type = "service" -> 1
      [] type = "wet" -> 2
      [] type = "private" -> 3
      [] type = "outdoor" -> 4
      [] type = "general" -> 5
      [] OTHER -> 99

\* The rooms left in the order they were requested in.
sort_rooms_as_given(rs) == rs

\* sorted(rooms, key=lambda item: order.get(item.type, 99))
sort_rooms(rs) ==
    LET perm == SortedPositions([i \in 1..Len(rs) |-> TypeOrder(rs[i].type)])
    IN  [r \in 1..Len(rs) |-> rs[perm[r]]]

\* The envelope width without its floor of 6.0.
envelope_width_unfloored(rs, width) ==
    LET total == SumSeq([i \in 1..Len(rs) |-> rs[i].area])
    IN  Max(width * Unit - Margin, (SqrtFix(total) * 9) \div 10)

envelope_width(rs, width) ==
    LET total == SumSeq([i \in 1..Len(rs) |-> rs[i].area])
    IN  Max(Max(width * Unit - Margin, (SqrtFix(total) * 9) \div 10), MinEnvelope)

\* The divisor of total_area / max(envelope_width, 1.0).
envelope_length_divisor(env_width) == Max(env_width, Unit)

envelope_length(rs, width, length) ==
    LET total == SumSeq([i \in 1..Len(rs) |-> rs[i].area])
    IN  Max(Max(length * Unit - Margin,
                DivFix(total * Unit, envelope_length_divisor(envelope_width(rs, width)))),
            MinEnvelope)

\* The cursors before the first room.
layout_start ==
    [x_cursor |-> 0, y_cursor |-> 0, row_height |-> 0, total_width |-> 0,
     total_length |-> 0, layout |-> <<>>]

\* width_guess as first derived from the area and the aspect ratio of the type.
first_width(room) ==
    LET target_area == Max(room.area, 6)
        aspect_ratio == IF room.type \in {"private", "wet"} THEN 135 ELSE 115
    IN  Max(Cm * SqrtRound(target_area * 1000000, aspect_ratio), MinRoomSide)

\* y_cursor of the row opened by a wrap, with the height of the row left out.
next_row_y_no_row_height(cur) == cur.y_cursor + Corridor

\* y_cursor of the row opened by a wrap.
next_row_y(cur) == cur.y_cursor + cur.row_height + Corridor

\* The divisor of target_area / max(width_guess, 2.4).
room_length_divisor(width_guess) == Max(width_guess, MinClipWidth)

\* length_guess from the constant floor instead of the final width.
room_length_fixed_width(target_area, width_guess) ==
    Max(Cm * RoundCentiDiv(target_area * Unit, MinClipWidth), MinRoomSide)

\* length_guess recomputed from the final width.
room_length(target_area, width_guess) ==
    Max(Cm * RoundCentiDiv(target_area * Unit, room_length_divisor(width_guess)),
        MinRoomSide)

\* width_guess left as first derived, whatever the row has left.
width_never_clipped(first_guess, remaining) == first_guess

\* min(width_guess, max_width - x_cursor if max_width - x_cursor > 2.4 else
\* width_guess)
clip_width(first_guess, remaining) ==
    Min(first_guess, IF remaining > MinClipWidth THEN remaining ELSE first_guess)

\* The door as wide as the window.
door_width_of_window_share(width_guess) ==
    RoundHalfEven(Max(width_guess * 45, 100 * Unit), 100 * Cm)

\* round(max(width_guess * 0.35, 0.9), 2)
door_width(width_guess) == RoundHalfEven(Max(width_guess * 35, 90 * Unit), 100 * Cm)

\* round(max(width_guess * 0.45, 1.0), 2)
window_width(width_guess) == RoundHalfEven(Max(width_guess * 45, 100 * Unit), 100 * Cm)

\* _room_color
room_color(room_type) ==
    CASE room_type = "wet" -> "#bae6fd"
      [] room_type = "private" -> "#c7d2fe"
      [] room_type = "social" -> "#bbf7d0"
      [] room_type = "service" -> "#fde68a"
      [] room_type = "outdoor" -> "#fbcfe8"
      [] room_type = "general" -> "#e0f2fe"
      [] OTHER -> "#e2e8f0"

\* One iteration of the loop over sorted_rooms: cur is the loop state, the
\* result is the loop state after the room is placed.
\* style.fill and style.font_size are kept as the fields fill and font_size;
\* labels holds the two numbers of the label text, in decimetres ("{:.1f}").
place_room(cur, room, max_width, orientation, catalog) ==
    LET target_area == Max(room.area, 6)
        first_guess == first_width(room)
        wrap == cur.x_cursor + first_guess > max_width /\ cur.x_cursor > 0
        x_cursor == IF wrap THEN 0 ELSE cur.x_cursor
        y_cursor == IF wrap THEN next_row_y(cur) ELSE cur.y_cursor
        row_height == IF wrap THEN 0 ELSE cur.row_height
        width_guess == clip_width(first_guess, max_width - x_cursor)
        length_guess == room_length(target_area, width_guess)
        placed ==
            [name |-> room.name,
             area |-> target_area,
             position |-> [x |-> RoundHalfEven(Corridor \div 2 + x_cursor, Cm),
                           y |-> RoundHalfEven(Corridor \div 2 + y_cursor, Cm)],
             dimensions |-> [width |-> RoundHalfEven(width_guess, Cm),
                             length |-> RoundHalfEven(length_guess, Cm)],
             font_size |->
                 Max(12, Min(22, (Min(width_guess, length_guess) * 52) \div (10 * Unit))),
             door |-> [side |-> "sur",
                       offset |-> RoundHalfEven(width_guess, 2 * Cm),
                       width |-> door_width(width_guess)],
             window |-> [side |-> "norte",
                         offset |-> RoundHalfEven(width_guess, 2 * Cm),
                         width |-> window_width(width_guess)],
             fill |-> room_color(room.type),
             labels |-> [width |-> RoundHalfEven(width_guess, 10 * Cm),
                         length |-> RoundHalfEven(length_guess, 10 * Cm)],
             orientation |-> orientation,
             room_type |-> room.type,
             guide |-> [manual_step |-> room.guide,
                       video |-> get_video_by_manual_step(room.guide, catalog)]]
    IN  [x_cursor |-> x_cursor + width_guess + Corridor,
         y_cursor |-> y_cursor,
         row_height |-> Max(row_height, length_guess),
         total_width |-> Max(cur.total_width, x_cursor + width_guess + Corridor),
         total_length |-> Max(cur.total_length, y_cursor + length_guess + Corridor),
         layout |-> Append(cur.layout, placed)]

\* The loop leaving out every room that no longer fits beside the cursor
\* once the row is started.
RECURSIVE place_rooms_that_fit(_, _, _, _, _)
place_rooms_that_fit(cur, sorted_rooms, max_width, orientation, catalog) ==
    IF sorted_rooms = <<>> THEN cur
    ELSE place_rooms_that_fit(
             IF cur.x_cursor + first_width(Head(sorted_rooms)) > max_width
                /\ cur.x_cursor > 0
             THEN cur
             ELSE place_room(cur, Head(sorted_rooms), max_width, orientation, catalog),
             Tail(sorted_rooms), max_width, orientation, catalog)

RECURSIVE place_rooms(_, _, _, _, _)
place_rooms(cur, sorted_rooms, max_width, orientation, catalog) ==
    IF sorted_rooms = <<>> THEN cur
    ELSE place_rooms(place_room(cur, Head(sorted_rooms), max_width, orientation, catalog),
                     Tail(sorted_rooms), max_width, orientation, catalog)

\* The metrics reporting the envelope alone, whatever the rooms reached.
layout_metrics_of_envelope(end, env_width, env_length) ==
    [rooms |-> end.layout,
     metrics |->
        [width |-> RoundHalfEven(env_width, Cm),
         length |-> RoundHalfEven(env_length, Cm),
         corridor |-> Corridor \div Cm,
         envelope_width |-> RoundHalfEven(env_width, Cm)]]

\* The statements after the loop: `end` is the loop state once every room is
\* placed. The pair (layout, metrics) as a record; positions and dimensions
\* in cm.
layout_metrics(end, env_width, env_length) ==
    [rooms |-> end.layout,
     metrics |->
        [width |-> RoundHalfEven(Max(end.total_width, env_width), Cm),
         length |-> RoundHalfEven(
             Max(Max(end.total_length, end.y_cursor + end.row_height + Corridor),
                 env_length), Cm),
         corridor |-> Corridor \div Cm,
         envelope_width |-> RoundHalfEven(env_width, Cm)]]

layout_rooms(rs, width, length, orientation, catalog) ==
    layout_metrics(
        place_rooms(layout_start, sort_rooms(rs), envelope_width(rs, width) - Corridor,
                    IF orientation = None THEN "norte" ELSE orientation, catalog),
        envelope_width(rs, width),
        envelope_length(rs, width, length))

(* ----------------------------------------------------------- _score_template *)

\* The divisor of presupuesto / (base_cost * total_area).
budget_ratio_divisor(template, area) == template.base_cost * area

\* The sum with the budget factor capped at 1.2 only and returned as it is.
score_template_unclamped(template, form_data, area) ==
    LET climate_part == IF form_data.clima \in template.climates THEN 400000 ELSE 200000
        material_part == IF form_data.material \in template.materials THEN 400000 ELSE 150000
        budget_factor ==
            Min(DivFix(form_data.presupuesto, budget_ratio_divisor(template, area)),
                1200000)
    IN  climate_part + material_part + (2 * budget_factor) \div 10
        - 50000 * Abs(form_data.plantas - template.max_levels)

\* The level penalty taken with its sign: fewer levels than the template
\* allows raise the score.
score_template_signed_penalty(template, form_data, area) ==
    LET climate_part == IF form_data.clima \in template.climates THEN 400000 ELSE 200000
        material_part == IF form_data.material \in template.materials THEN 400000 ELSE 150000
        budget_factor ==
            Min(DivFix(form_data.presupuesto, budget_ratio_divisor(template, area)),
                1200000)
        score == climate_part + material_part + (2 * Min(budget_factor, Unit)) \div 10
                 - 50000 * (form_data.plantas - template.max_levels)
    IN  Max(0, Min(score, Unit))

\* The compatibility of one template, in millionths.
score_template(template, form_data, area) ==
    LET climate_part == IF form_data.clima \in template.climates THEN 400000 ELSE 200000
        material_part == IF form_data.material \in template.materials THEN 400000 ELSE 150000
        budget_factor ==
            Min(DivFix(form_data.presupuesto, budget_ratio_divisor(template, area)),
                1200000)
        score == climate_part + material_part + (2 * Min(budget_factor, Unit)) \div 10
                 - 50000 * Abs(form_data.plantas - template.max_levels)
    IN  Max(0, Min(score, Unit))

(* ------------------------------------------------------------------ _create_svg *)

\* The markup is kept as the record of what is written into it: every number
\* as formatted ("{:.1f}": tenths of a pixel), every text as itself.  Lengths
\* come in cm; a pixel length is carried in thousandths (1 cm = 0.378 px).
svg_template ==
    << "M20 20 H 300 V 200 H 20 Z",
       "M30 40 H 200 L 280 120 L 200 200 H 30 Z",
       "M20 20 H 160 V 120 H 20 Z M190 20 H 330 V 180 H 190 Z" >>

px_per_meter == 378

margin_x == 96000

margin_y == 120000

\* "{:.1f}" of a length in thousandths of a pixel.
Fmt(millipx) == RoundHalfEven(millipx, 100)

orientation_angles ==
    ("norte" :> 0) @@ ("este" :> 90) @@ ("sur" :> 180) @@ ("oeste" :> 270)

\* The data-room attribute carrying the guide video of the room as well.
data_room_with_video(room) == <<room.name, room.guide.video.id>>

\* The data-room attribute of a layer.
data_room(room) == room.name

\* One <g class='room'> layer.  Of the label it keeps what the fitting starts
\* from: the name, max_chars and the font size of the room's style (the
\* wrapping and the fitting loop are modelled below, under "label").
room_layer(room) ==
    LET x == margin_x + room.position.x * px_per_meter
        y == margin_y + room.position.y * px_per_meter
        width == room.dimensions.width * px_per_meter
        length == room.dimensions.length * px_per_meter
        outdoor == room.room_type = "outdoor"
        door_width_px == room.door.width * px_per_meter
        window_width_px == room.window.width * px_per_meter
        shorter == Min(room.dimensions.width, room.dimensions.length)
    IN  [name |-> data_room(room),
         rect |-> <<Fmt(x), Fmt(y), Fmt(width), Fmt(length)>>,
         fill |-> room.fill,
         fill_opacity |-> IF outdoor THEN 78 ELSE 90,
         stroke_width |-> IF outdoor THEN 26 ELSE 34,
         hatch_id |-> IF outdoor THEN "hatch-outdoor"
                      ELSE IF room.room_type = "service" THEN "hatch-service" ELSE None,
         door |-> << Fmt(x + Max(room.door.offset * px_per_meter
                                 - door_width_px \div 2, 12000)),
                     Fmt(y + length), Fmt(door_width_px) >>,
         window |-> << Fmt(x + Max(room.window.offset * px_per_meter
                                   - window_width_px \div 2, 12000)),
                       Fmt(y - 6000), Fmt(window_width_px) >>,
         label |-> [text |-> room.name,
                    max_chars |-> Max(10, Min(18, (shorter * 34) \div 1000)),
                    font_size |-> room.font_size,
                    center_x |-> Fmt(x + width \div 2)],
         dims |-> <<room.area, room.labels.width, room.labels.length>>]

create_svg(path, placed, metrics, form_data) ==
    LET given == get(form_data, "orientacion", None)
        orientation == IF given = None THEN "norte" ELSE given
        width_m == Max(metrics.width, 600)
        length_m == Max(metrics.length, 600)
        width_px == width_m * px_per_meter
        length_px == length_m * px_per_meter
    IN  [viewBox |-> <<Fmt(width_px + margin_x * 2 + 260000),
                       Fmt(length_px + margin_y * 2 + 280000)>>,
         frame |-> <<Fmt(margin_x - 32000), Fmt(margin_y - 32000),
                     Fmt(width_px + 64000), Fmt(length_px + 64000)>>,
         grid_lines |-> [columns |-> width_m \div 100 + 1, rows |-> length_m \div 100 + 1],
         path |-> path,
         room_layers |-> [i \in 1..Len(placed) |-> room_layer(placed[i])],
         dimension_lines |-> <<RoundHalfEven(width_m, 10), RoundHalfEven(length_m, 10)>>,
         segment |-> IF width_m >= 1200 THEN 5 ELSE IF width_m >= 900 THEN 3 ELSE 2,
         north_rotation |->
             IF orientation \in DOMAIN orientation_angles
             THEN orientation_angles[orientation] ELSE 0]

(* -------------------------------------------------------------------- label *)

\* A name is held here as the list of its words (str.split()); a line of the
\* label is a list of words as well, written with one space between them.

\* len(line)
LineLength(line) ==
    IF line = <<>> THEN 0
    ELSE SumSeq([i \in 1..Len(line) |-> Len(line[i])]) + Len(line) - 1

\* max(10, min(18, int(min(width, length) * 3.4))), sides in cm.
max_chars(placed) ==
    Max(10, Min(18, (Min(placed.dimensions.width, placed.dimensions.length) * 34)
                        \div 1000))

\* The loop over words[1:]: a word joins the current line while the line stays
\* within max_chars, else it opens the next line.
RECURSIVE wrap_words(_, _, _, _)
wrap_words(lines, current, words, limit) ==
    IF words = <<>> THEN Append(lines, current)
    ELSE IF LineLength(Append(current, Head(words))) <= limit
         THEN wrap_words(lines, Append(current, Head(words)), Tail(words), limit)
         ELSE wrap_words(Append(lines, current), <<Head(words)>>, Tail(words), limit)

\* The lines as the loop over the words leaves them, however many.
merge_nothing(lines) == lines

\* while len(lines) > 3: the last line is appended to the one before it.
RECURSIVE merge_lines(_)
merge_lines(lines) ==
    IF Len(lines) > 3
    THEN merge_lines(Append(SubSeq(lines, 1, Len(lines) - 2),
                            lines[Len(lines) - 1] \o lines[Len(lines)]))
    ELSE lines

\* _wrap_label; a text without words is returned as the only line.
wrap_label(words, limit) ==
    IF limit <= 0 \/ words = <<>> THEN <<words>>
    ELSE merge_lines(wrap_words(<<>>, <<Head(words)>>, Tail(words), limit))

\* font_size -= 1
shrink(size) == size - 1

\* Twice dims_y and twice its limit y + length - 10, in thousandths of a pixel
\* (label_start_y = y + length / 2 - (block_height - line_height) / 2).
label_fits(placed, lines, size, height) ==
    LET y == margin_y + placed.position.y * px_per_meter
        length == placed.dimensions.length * px_per_meter
        block_height == height * Len(lines)
        twice_label_start_y == 2 * y + length - (block_height - height) * 1000
        twice_dims_y == twice_label_start_y + 2 * (block_height + 6) * 1000
    IN  twice_dims_y <= 2 * (y + length - 10000) \/ size <= 12

(* -------------------------------------------------------- _generate_blueprints *)

\* An ascending sort read backwards: equal keys end up in reverse order.
sort_options_reversed(options) ==
    LET n == Len(options)
        perm == SortedPositions([i \in 1..n |-> options[i].compatibility])
    IN  [r \in 1..n |-> options[perm[n + 1 - r]]]

\* options.sort(key=lambda item: item["compatibility"], reverse=True): stable,
\* equal keys keep their order.
sort_options(options) ==
    LET perm == SortedPositions([i \in 1..Len(options) |-> 0 - options[i].compatibility])
    IN  [r \in 1..Len(options) |-> options[perm[r]]]

\* The entry appended to plan_options for one template, from the layout and
\* the score computed for it; score is the value _score_template returned (the
\* local `compatibility`), compatibility its round(., 2) in hundredths.
plan_entry(template, form_data, placed, score) ==
    [idx |-> template.idx,
     name |-> template.name,
     score |-> score,
     compatibility |-> RoundHalfEven(score, 10000),
     svg |-> create_svg(svg_template[template.idx], placed.rooms, placed.metrics,
                        form_data),
     rooms |-> placed.rooms,
     metrics |-> placed.metrics]

\* The option built for one template.
plan_option(template, form_data, rs, area, catalog) ==
    plan_entry(template, form_data,
               layout_rooms(rs, get(form_data, "ancho_terreno", 0),
                            get(form_data, "largo_terreno", 0),
                            get(form_data, "orientacion", None), catalog),
               score_template(template, form_data, area))

\* The returned dict: the sorted options and the first of them.
blueprints_of(options) == [options |-> options, selected |-> options[1]]

generate_blueprints(form_data, rs, area, catalog) ==
    blueprints_of(sort_options([i \in 1..Len(PLAN_TEMPLATES) |->
                                   plan_option(PLAN_TEMPLATES[i], form_data, rs, area,
                                               catalog)]))

(* -------------------------------------------------------- _estimate_materials *)

\* An unknown material priced as block.
DefaultMaterialCostOfBlock == MATERIAL_COSTS["block"]

DefaultMaterialCost == 2500

DefaultClimateFactor == 100

\* Money in centavos; quantities in hundredths of their unit.
structure_cost(form_data, area) ==
    LET base_cost == IF form_data.material \in DOMAIN MATERIAL_COSTS
                     THEN MATERIAL_COSTS[form_data.material] ELSE DefaultMaterialCost
        climate_factor == IF form_data.clima \in DOMAIN CLIMATE_FACTORS
                          THEN CLIMATE_FACTORS[form_data.clima] ELSE DefaultClimateFactor
    IN  area * base_cost * climate_factor

finishes_cost(form_data, area) == (structure_cost(form_data, area) * 25) \div 100

installations_cost(form_data, area) == (structure_cost(form_data, area) * 18) \div 100

\* The contingency taken as 10 % of the structure.
contingency_ten_percent(form_data, area) == (structure_cost(form_data, area) * 10) \div 100

contingency(form_data, area) == (structure_cost(form_data, area) * 7) \div 100

total_cost(form_data, area) ==
    structure_cost(form_data, area) + finishes_cost(form_data, area)
    + installations_cost(form_data, area) + contingency(form_data, area)

Item(name, quantity, unit, unit_cost) ==
    [name |-> name, quantity |-> quantity, unit |-> unit, unit_cost |-> unit_cost]

\* The first item is named after the material ("<Material> estructural").
estimate_materials(form_data, area) ==
    LET base_cost == IF form_data.material \in DOMAIN MATERIAL_COSTS
                     THEN MATERIAL_COSTS[form_data.material] ELSE DefaultMaterialCost
    IN  [items |->
            << Item(form_data.material, area * 120, "m²", base_cost),
               Item("Acero de refuerzo", area * 15, "ton", 16500),
               Item("Instalaciones hidráulicas y eléctricas", area * 80, "m lineales", 480),
               Item("Acabados y pintura", area * 140, "m²", 220) >>,
         estimated_total |-> total_cost(form_data, area)]

(* ------------------------------------------------------- _calculate_viability *)

RECURSIVE preference_sum(_)
preference_sum(preferences) ==
    IF preferences = <<>> THEN 0
    ELSE Get(PREFERENCE_WEIGHTS, Lower(Head(preferences)), 1) * 10000
         + preference_sum(Tail(preferences))

RECURSIVE status_for(_, _)
status_for(score10, table) ==
    IF table = <<>> THEN VIABILITY_MESSAGES[Len(VIABILITY_MESSAGES)][2]
    ELSE IF score10 >= Head(table)[1] * 100000 THEN Head(table)[2]
    ELSE status_for(score10, Tail(table))

\* The divisor of len(rooms) / (personas + 1).
space_factor_divisor(form_data) == form_data.personas + 1

\* The divisor of presupuesto / max(estimated_total, 1), in centavos.
budget_factor_divisor(mats) == Max(mats.estimated_total, 100)

space_factor(form_data, rs) ==
    Min(DivFix(Len(rs), space_factor_divisor(form_data)), 1200000)

\* The ratio taken upside down: cost over budget.
budget_factor_inverted(form_data, mats) ==
    Min(DivFix(budget_factor_divisor(mats), form_data.presupuesto * 100), 1200000)

\* The ratio without its 1.2 cap.
budget_factor_uncapped(form_data, mats) ==
    DivFix(form_data.presupuesto * 100, budget_factor_divisor(mats))

budget_factor(form_data, mats) ==
    Min(DivFix(form_data.presupuesto * 100, budget_factor_divisor(mats)), 1200000)

preference_factor(form_data) == Unit + preference_sum(form_data.preferencias)

\* The weighted sum without the cap at 1.0.
viability_score_uncapped(form_data, rs, mats) ==
    space_factor(form_data, rs) * 4 + budget_factor(form_data, mats) * 4
    + preference_factor(form_data) * 2

\* The unrounded score, in ten-millionths (so that 0.4 * x keeps its digits).
viability_score(form_data, rs, mats) ==
    Min(space_factor(form_data, rs) * 4 + budget_factor(form_data, mats) * 4
        + preference_factor(form_data) * 2, 10 * Unit)

\* score in hundredths, as round(score, 2) leaves it.
calculate_viability(form_data, rs, mats) ==
    LET score == viability_score(form_data, rs, mats)
    IN  [score |-> RoundHalfEven(score, 100000),
         message |-> status_for(score, VIABILITY_MESSAGES)]

(* --------------------------------------------------------------- _build_manual *)

levels == <<"principiante", "intermedio", "avanzado">>

descriptions ==
    ("principiante" :> "Preparación del terreno, trazo y cimentación con drenajes adecuados.")
    @@ ("intermedio" :> "Levantamiento de muros, instalaciones básicas y losas ligeras.")
    @@ ("avanzado" :> "Acabados, impermeabilización y checklist final de seguridad.")

\* items[:n]
Slice(items, n) == SubSeq(items, 1, Min(n, Len(items)))

\* The slices of the first two levels exchanged.
materials_for_level_exchanged(level, items) ==
    IF level = "principiante" THEN Slice(items, 3)
    ELSE IF level = "intermedio" THEN Slice(items, 2)
    ELSE items

materials_for_level(level, items) ==
    IF level = "principiante" THEN Slice(items, 2)
    ELSE IF level = "intermedio" THEN Slice(items, 3)
    ELSE items

build_manual(form_data, mats, catalog) ==
    [steps |->
        [i \in 1..Len(levels) |->
            [step |-> i,
             title |-> <<"Paso", i>>,
             description |-> descriptions[levels[i]],
             video |-> get_step_video(levels[i], catalog),
             materials |-> materials_for_level(levels[i], mats.items)]],
     primary_material |-> form_data.material]

(* -------------------------------------------------------------- _select_alerts *)

SAFETY_ALERTS ==
    << "No uses cemento húmedo o caducado durante la mezcla.",
       "Mantén los pasillos de obra libres de escombros para evitar accidentes.",
       "Verifica la resistencia del suelo antes de vaciar losas o cimentaciones.",
       "Deja claros los vanos para ventilación natural en cada espacio habitable." >>

select_alerts(form_data) ==
    SAFETY_ALERTS
    \o (IF \E i \in 1..Len(form_data.necesidades) :
              form_data.necesidades[i] = Name("accesibilidad", "lower")
        THEN <<"Asegura rampas con pendiente máxima de 8 grados y pasamanos dobles.">>
        ELSE <<>>)
    \o (IF form_data.clima \in {"húmedo", "cálido"}
        THEN <<"Considera ventilaciones cruzadas para evitar acumulación de humedad.">>
        ELSE <<>>)
    \o (IF form_data.material = "madera"
        THEN <<"Aplica tratamientos ignífugos y antihumedad en toda la madera expuesta.">>
        ELSE <<>>)

(* ------------------------------------------------------------------ briefs *)

\* Enumerated domains of validation.ALLOWED_VALUES.
ALLOWED_PRESUPUESTO == {150000, 250000, 350000, 500000, 650000, 800000}

ALLOWED_PERSONAS == {2, 3, 4, 5, 6, 7}

ALLOWED_ESPACIOS ==
    {"cocina", "baño", "recámara", "patio", "sala", "comedor", "área de lavado",
     "cochera", "estudio", "terraza", "baño completo", "recámara principal"}

\* The values of each field the generated briefs range over (each a subset of
\* its enumerated domain).
Budgets == {150000, 350000, 800000}

Widths == {6, 10}

Lengths == {15}

Climates == {"templado", "cálido", "húmedo"}

Materials == {"block", "madera"}

Families == {2, 6}

Levels == {1, 3}

Spaces == {"cocina", "baño", "recámara", "sala", "cochera"}

PreferenceLists ==
    { <<>>, <<Name("energía solar", "lower"), Name("bajo mantenimiento", "lower")>> }

SeqsUpTo(S, n) == UNION {[1..k -> S] : k \in 0..n}

\* The three fields whose value is a list.
ListFields == {"necesidades", "preferencias", "espacios"}

\* The fields with a single value, as far as the core reads them.
ScalarFields ==
    {"presupuesto", "largo_terreno", "ancho_terreno", "ciudad", "localidad", "clima",
     "material", "personas", "plantas", "orientacion"}

REQUIRED_FIELDS ==
    {"presupuesto", "largo_terreno", "ancho_terreno", "ciudad", "localidad", "clima",
     "material", "personas", "plantas", "espacios"}

\* A validated brief that gives every required field and no optional one
\* (list fields are always present after validation).
Brief(budget, width, length, climate, material, family, floors, spaces, prefs) ==
    [presupuesto |-> budget, ancho_terreno |-> width, largo_terreno |-> length,
     ciudad |-> "Puebla", localidad |-> "Centro",
     clima |-> climate, material |-> material, personas |-> family,
     plantas |-> floors, espacios |-> spaces, preferencias |-> prefs,
     necesidades |-> <<>>, orientacion |-> None,
     keys |-> REQUIRED_FIELDS \cup ListFields]

\* The brief of the worked scenario: terrain 10 x 15, budget 350000, templado,
\* block, family of 4, one level, four rooms, no preferences.
ScenarioBrief ==
    Brief(350000, 10, 15, "templado", "block", 4, 1,
          << Name("cocina", "lower"), Name("baño", "lower"),
             Name("recámara", "lower"), Name("sala", "lower") >>, <<>>)

\* The scenario's four rooms under every budget, family size and preference
\* list.
ScenarioVariants ==
    { [ScenarioBrief EXCEPT !.presupuesto = b, !.personas = f, !.preferencias = pr] :
        b \in ALLOWED_PRESUPUESTO, f \in ALLOWED_PERSONAS, pr \in PreferenceLists }

\* Briefs whose unrounded viability score lies just under a threshold of the
\* message table (0.8464 and 0.6986 among them).
ThresholdBriefs ==
    { Brief(150000, 10, 15, c, "concreto", f, 1,
            <<Name("recámara", "lower"), Name("cochera", "lower")>>, <<>>) :
        c \in {"templado", "húmedo"}, f \in {3, 7} }

Briefs ==
    { Brief(b, w, l, c, m, f, n, sp, pr) :
        b \in Budgets, w \in Widths, l \in Lengths, c \in Climates, m \in Materials,
        f \in Families, n \in Levels,
        sp \in SeqsUpTo({Name(t, "lower") : t \in Spaces}, MaxRooms),
        pr \in PreferenceLists }
    \cup ScenarioVariants
    \cup ThresholdBriefs

(* -------------------------------------------------- validate_project_payload *)

\* A payload is a dict as well, with the set `nulls` of the keys it holds with
\* the value null.
ALLOWED_VALUES ==
    ("presupuesto" :> ALLOWED_PRESUPUESTO)
    @@ ("largo_terreno" :> {15, 18, 20, 25, 30})
    @@ ("ancho_terreno" :> {6, 8, 10, 12, 15})
    @@ ("ciudad" :> {"Ciudad de México", "Guadalajara", "Monterrey", "Mérida", "Puebla",
                     "Querétaro"})
    @@ ("localidad" :> {"Iztapalapa", "Tonalá", "Centro", "Cholula", "San Pedro"})
    @@ ("clima" :> {"templado", "cálido", "húmedo", "seco"})
    @@ ("material" :> {"concreto", "block", "madera", "adobe"})
    @@ ("personas" :> ALLOWED_PERSONAS)
    @@ ("plantas" :> {1, 2, 3})
    @@ ("necesidades" :> {"accesibilidad", "taller", "negocio familiar", "rampa", "jardín"})
    @@ ("preferencias" :> {"ventilación natural", "iluminación natural", "energía solar",
                           "captación de agua", "bajo mantenimiento"})
    @@ ("espacios" :> ALLOWED_ESPACIOS)
    @@ ("orientacion" :> {"norte", "sur", "este", "oeste"})

\* payload.get(field) of a scalar field is neither missing nor null.
is_given(payload, field) == field \in payload.keys \ payload.nulls

\* A list element that is not a string (a JSON number), and the test for the
\* ones that are.
Number(n) == [number |-> n]

is_str(value) == "text" \in DOMAIN value

\* `value in allowed` for a value of a list field: the allowed values are
\* strings, all written in lower case.
allowed_value(field, value) ==
    /\ is_str(value)
    /\ value.case = "lower"
    /\ value.text \in ALLOWED_VALUES[field]

allowed_in_list(payload, field) ==
    \A i \in 1..Len(payload[field]) : allowed_value(field, payload[field][i])

\* What the loop body raises on a list field: ValueError for a value that is
\* no list or holds invalid strings, TypeError when ', '.join(invalid) meets
\* an invalid value that is no string.
list_error(payload, field) ==
    IF field \notin payload.keys THEN None
    ELSE IF field \in payload.nulls THEN "ValueError"
    ELSE IF allowed_in_list(payload, field) THEN None
    ELSE IF \E i \in 1..Len(payload[field]) : ~is_str(payload[field][i])
         THEN "TypeError"
    ELSE "ValueError"

scalar_error(payload, field) ==
    IF is_given(payload, field) /\ payload[field] \notin ALLOWED_VALUES[field]
    THEN "ValueError" ELSE None

field_error(payload, field) ==
    IF field \in ListFields THEN list_error(payload, field)
    ELSE scalar_error(payload, field)

\* The fields in the order ALLOWED_VALUES.items() yields them.
FieldOrder ==
    << "presupuesto", "largo_terreno", "ancho_terreno", "ciudad", "localidad",
       "clima", "material", "personas", "plantas", "necesidades", "preferencias",
       "espacios", "orientacion" >>

\* A terrain outline as _validate_boundary tests it: a value that is no dict,
\* a geometry (a dict with its "type" and "coordinates") or a GeoJSON feature
\* around one.  Coordinates and rings record whether they are lists.
NotDict == [is_dict |-> FALSE]

Ring(is_list, points) == [is_list |-> is_list, points |-> points]

Coordinates(is_list, rings) == [is_list |-> is_list, rings |-> rings]

Geometry(type, coordinates) ==
    [is_dict |-> TRUE, type |-> type, coordinates |-> coordinates]

Feature(geometry, properties) ==
    [is_dict |-> TRUE, type |-> "Feature", geometry |-> geometry,
     properties |-> properties]

\* payload.get("boundary") is not None
has_boundary(payload) == "boundary" \in payload.keys \ payload.nulls

geometry_of(boundary) ==
    IF boundary.type = "Feature" THEN boundary.geometry ELSE boundary

\* _validate_boundary raises ValueError.
malformed(boundary) ==
    \/ ~boundary.is_dict
    \/ ~geometry_of(boundary).is_dict
    \/ geometry_of(boundary).type # "Polygon"
    \/ ~geometry_of(boundary).coordinates.is_list
    \/ geometry_of(boundary).coordinates.rings = <<>>
    \/ \E i \in 1..Len(geometry_of(boundary).coordinates.rings) :
          \/ ~geometry_of(boundary).coordinates.rings[i].is_list
          \/ geometry_of(boundary).coordinates.rings[i].points = <<>>

\* What _validate_boundary returns.
validate_boundary(boundary) ==
    Feature(geometry_of(boundary),
            IF boundary.type = "Feature" THEN boundary.properties ELSE {})

\* The exception validate_project_payload leaves with, None when it returns:
\* the required fields first, then the first field of the loop that raises,
\* then the boundary.
raised(payload) ==
    IF ~(REQUIRED_FIELDS \subseteq payload.keys) THEN "ValueError"
    ELSE IF \E i \in 1..Len(FieldOrder) : field_error(payload, FieldOrder[i]) # None
         THEN field_error(
                  payload,
                  FieldOrder[CHOOSE i \in 1..Len(FieldOrder) :
                                /\ field_error(payload, FieldOrder[i]) # None
                                /\ \A j \in 1..(i - 1) :
                                      field_error(payload, FieldOrder[j]) = None])
    ELSE IF has_boundary(payload) /\ malformed(payload.boundary) THEN "ValueError"
    ELSE None

\* The payload makes validate_project_payload raise ValueError.
ValueError(payload) == raised(payload) = "ValueError"

\* The payload makes validate_project_payload raise TypeError.
TypeError(payload) == raised(payload) = "TypeError"

\* The validated dict: every list field (empty when the payload has none),
\* the scalar fields the payload gives (a scalar field given as null is left
\* out) and the boundary when the payload has one.
validate_project_payload(payload) ==
    [field \in ListFields \cup ScalarFields \cup {"keys"}
               \cup (IF has_boundary(payload) THEN {"boundary"} ELSE {}) |->
        IF field = "keys"
        THEN ListFields \cup {f \in ScalarFields : is_given(payload, f)}
               \cup (IF has_boundary(payload) THEN {"boundary"} ELSE {})
        ELSE IF field = "boundary" THEN validate_boundary(payload.boundary)
        ELSE IF field \in ListFields /\ field \notin payload.keys THEN <<>>
        ELSE payload[field]]

(* ------------------------------------------------------------------- state *)

NoPlans == [options |-> <<>>, selected |-> None]

NoMaterials == [items |-> <<>>, estimated_total |-> 0]

NoViability == [score |-> 0, message |-> None]

NoLayout == [rooms |-> <<>>, metrics |-> None]

NoManual == [steps |-> <<>>, primary_material |-> None]

\* What an invocation returned and the catalog it read, kept for the next
\* one to be compared with.
Returned(done, blueprints, mats, viab, catalog) ==
    [done |-> done, plans |-> blueprints, materials |-> mats, viability |-> viab,
     videos |-> catalog]

NoEarlier == Returned(FALSE, NoPlans, NoMaterials, NoViability, <<>>)

\* The catalog the seed script leaves.
SeedCatalog ==
    << Video(1, "cimientos", "preparacion_terreno"),
       Video(2, "cimientos", "preparacion_terreno"),
       Video(3, "estructura", "levantamiento_muros"),
       Video(4, "instalaciones", "instalaciones_seguras"),
       Video(5, "acabados", "acabados_finales"),
       Video(6, "ventilacion", "ventilacion_iluminacion") >>

\* No room is being rendered.
NoRoom == [name |-> <<>>]

NoLabel ==
    /\ label_room = NoRoom
    /\ label_lines = <<>>
    /\ font_size = 0
    /\ line_height = 0

\* The catalog as the module defines it, and no invocation running beside
\* the one modelled.
NoCalls ==
    /\ safety_alerts = SAFETY_ALERTS
    /\ calls = <<>>

\* No request has been served.
NoResponse == [request |-> "none", token |-> "", status |-> 0]

\* The database as init_db creates it, and nothing served yet.
NoWeb ==
    /\ users = <<>>
    /\ sessions = {}
    /\ user_projects = <<>>
    /\ manual_downloads = <<>>
    /\ project_hires = <<>>
    /\ video_watch_history = <<>>
    /\ files = {}
    /\ issued = {}
    /\ revoked = {}
    /\ registering = <<>>
    /\ response = NoResponse

Fresh ==
    /\ pc = "start"
    /\ rooms = <<>>
    /\ total_area = 0
    /\ plans = NoPlans
    /\ materials = NoMaterials
    /\ viability = NoViability
    /\ layout = NoLayout
    /\ manual = NoManual
    /\ alerts = <<>>
    /\ earlier = NoEarlier
    /\ NoLabel
    /\ NoCalls
    /\ NoWeb

Init ==
    /\ brief \in Briefs
    /\ videos = SeedCatalog
    /\ Fresh

(* generate_project_package, one action per call it makes, in its order. *)

\* The keys each call reads with form_data[key], by the position the call is
\* made from.
Subscripts ==
    ("start" :> {})
    @@ ("rooms" :> {"clima", "material", "presupuesto", "plantas"})
    @@ ("plans" :> {"material", "clima"})
    @@ ("materials" :> {"personas", "presupuesto"})
    @@ ("viability" :> {"material"})
    @@ ("manual" :> {"necesidades", "clima", "material"})

\* The exception the call made from position `step` raises, None when it
\* returns: a key read with form_data[key] is not held, or a divisor is 0.
error_of(step, form_data, area) ==
    IF KeyError(form_data, Subscripts[step]) THEN "KeyError"
    ELSE IF step = "rooms"
            /\ \E i \in 1..Len(PLAN_TEMPLATES) :
                  budget_ratio_divisor(PLAN_TEMPLATES[i], area) = 0
         THEN "ZeroDivisionError"
    ELSE IF step = "materials" /\ space_factor_divisor(form_data) = 0
         THEN "ZeroDivisionError"
    ELSE None

Returns(step) == error_of(step, brief, total_area) = None

BuildRoomProgram ==
    /\ pc = "start"
    /\ Returns("start")
    /\ rooms' = build_room_program(get(brief, "espacios", <<>>))
    /\ total_area' = SumSeq([i \in 1..Len(rooms') |-> rooms'[i].area])
    /\ pc' = "rooms"
    /\ UNCHANGED <<brief, plans, materials, viability, layout, manual, alerts,
                   videos, earlier, outside_core>>

GenerateBlueprints ==
    /\ pc = "rooms"
    /\ Returns("rooms")
    /\ plans' = generate_blueprints(brief, rooms, total_area, videos)
    \* _layout_rooms is called with the same arguments for every template:
    \* the layout computed last is the layout of any option.
    /\ layout' = [rooms |-> plans'.selected.rooms, metrics |-> plans'.selected.metrics]
    /\ pc' = "plans"
    /\ UNCHANGED <<brief, rooms, total_area, materials, viability, manual, alerts,
                   videos, earlier, outside_core>>

EstimateMaterials ==
    /\ pc = "plans"
    /\ Returns("plans")
    /\ materials' = estimate_materials(brief, total_area)
    /\ pc' = "materials"
    /\ UNCHANGED <<brief, rooms, total_area, plans, viability, layout, manual,
                   alerts, videos, earlier, outside_core>>

CalculateViability ==
    /\ pc = "materials"
    /\ Returns("materials")
    /\ viability' = calculate_viability(brief, rooms, materials)
    /\ pc' = "viability"
    /\ UNCHANGED <<brief, rooms, total_area, plans, materials, layout, manual,
                   alerts, videos, earlier, outside_core>>

BuildManual ==
    /\ pc = "viability"
    /\ Returns("viability")
    /\ manual' = build_manual(brief, materials, videos)
    /\ pc' = "manual"
    /\ UNCHANGED <<brief, rooms, total_area, plans, materials, viability, layout,
                   alerts, videos, earlier, outside_core>>

SelectAlerts ==
    /\ pc = "manual"
    /\ Returns("manual")
    /\ alerts' = select_alerts(brief)
    /\ pc' = "done"
    /\ UNCHANGED <<brief, rooms, total_area, plans, materials, viability, layout,
                   manual, videos, earlier, outside_core>>

Next ==
    \/ BuildRoomProgram
    \/ GenerateBlueprints
    \/ EstimateMaterials
    \/ CalculateViability
    \/ BuildManual
    \/ SelectAlerts

Spec == Init /\ [][Next]_vars

(* _build_room_program on its own, over names in any letter case and names no
   preset knows. *)

NameTexts == {"cocina", "sala", "bodega"}

NameLists == SeqsUpTo({Name(t, c) : t \in NameTexts, c \in Cases}, MaxNames)

InitRooms ==
    /\ brief \in {[ScenarioBrief EXCEPT !.espacios = names] : names \in NameLists}
    /\ videos = SeedCatalog
    /\ Fresh

NextRooms == BuildRoomProgram

SpecRooms == InitRooms /\ [][NextRooms]_vars

(* _layout_rooms on its own, over room lists and terrain sizes beyond the
   enumerated domains (rooms large enough to be clipped, terrain 0). *)

LayoutKinds ==
    { Room(Name("sala", "title"), 16, "social", None),
      Room(Name("baño", "title"), 6, "wet", None),
      Room(Name("cochera", "title"), 18, "service", None),
      Room(Name("salón", "title"), 60, "social", None),
      Room(Name("alberca", "title"), 45, "outdoor", None),
      Room(Name("suite", "title"), 40, "private", None),
      Room(Name("bodega", "title"), 10, "general", None) }

LayoutWidths == {0, 6, 10, 15}

LayoutLengths == {0, 15}

InitLayout ==
    /\ brief \in {[ScenarioBrief EXCEPT !.ancho_terreno = w, !.largo_terreno = l] :
                    w \in LayoutWidths, l \in LayoutLengths}
    /\ rooms \in SeqsUpTo(LayoutKinds, MaxLayoutRooms) \ {<<>>}
    /\ total_area = SumSeq([i \in 1..Len(rooms) |-> rooms[i].area])
    /\ pc = "rooms"
    /\ plans = NoPlans
    /\ materials = NoMaterials
    /\ viability = NoViability
    /\ layout = NoLayout
    /\ manual = NoManual
    /\ alerts = <<>>
    /\ videos = SeedCatalog
    /\ earlier = NoEarlier
    /\ NoLabel
    /\ NoCalls
    /\ NoWeb

LayoutRooms ==
    /\ pc = "rooms"
    /\ layout' = layout_rooms(rooms, get(brief, "ancho_terreno", 0),
                              get(brief, "largo_terreno", 0),
                              get(brief, "orientacion", None), videos)
    /\ pc' = "layout"
    /\ UNCHANGED <<brief, rooms, total_area, plans, materials, viability, manual,
                   alerts, videos, earlier, outside_core>>

NextLayout == LayoutRooms

SpecLayout == InitLayout /\ [][NextLayout]_vars

(* A request: validate_project_payload on a payload, then
   generate_project_package on what it returns (routes.create_project). *)

\* The payload with the given keys, of which `nulls` carry null.
Payload(form, keys, nulls) ==
    [field \in ListFields \cup ScalarFields \cup {"keys", "nulls"} |->
        IF field = "keys" THEN keys
        ELSE IF field = "nulls" THEN nulls
        ELSE form[field]]

PayloadForms ==
    { [ScenarioBrief EXCEPT !.clima = c, !.material = m, !.espacios = sp,
                            !.necesidades = nd] :
        c \in {"templado", "húmedo", "polar"},
        m \in {"block", "madera"},
        sp \in {<<>>, ScenarioBrief.espacios},
        nd \in {<<>>, <<Name("accesibilidad", "lower")>>} }

\* Keys a payload may lack, and keys it may carry as null (one at a time).
Omissible == {"clima", "necesidades", "preferencias"}

Nullable ==
    {"presupuesto", "ancho_terreno", "clima", "material", "personas", "plantas"}

Payloads ==
    { Payload(form, ScenarioBrief.keys \ absent, nulls) :
        form \in PayloadForms,
        absent \in SUBSET Omissible,
        nulls \in {{}} \cup {{field} : field \in Nullable} }

InitRequest ==
    /\ brief \in Payloads
    /\ pc = "payload"
    /\ rooms = <<>>
    /\ total_area = 0
    /\ plans = NoPlans
    /\ materials = NoMaterials
    /\ viability = NoViability
    /\ layout = NoLayout
    /\ manual = NoManual
    /\ alerts = <<>>
    /\ videos = SeedCatalog
    /\ earlier = NoEarlier
    /\ NoLabel
    /\ NoCalls
    /\ NoWeb

ValidatePayload ==
    /\ pc = "payload"
    /\ IF ValueError(brief)
       THEN pc' = "ValueError" /\ UNCHANGED brief
       ELSE pc' = "start" /\ brief' = validate_project_payload(brief)
    /\ UNCHANGED <<rooms, total_area, plans, materials, viability, layout, manual,
                   alerts, videos, earlier, outside_core>>

\* A call of generate_project_package raises: the exception leaves the
\* function.
Raise ==
    /\ pc \in DOMAIN Subscripts
    /\ ~Returns(pc)
    /\ pc' = error_of(pc, brief, total_area)
    /\ UNCHANGED <<brief, rooms, total_area, plans, materials, viability, layout,
                   manual, alerts, videos, earlier, outside_core>>

NextRequest ==
    \/ ValidatePayload
    \/ Raise
    \/ Next

SpecRequest == InitRequest /\ [][NextRequest]_vars

(* Two invocations of generate_project_package on one brief, the video
   catalog being replaced between them. *)

OtherCatalog ==
    << Video(7, "estructura", "levantamiento_muros"),
       Video(8, "acabados", "instalaciones_seguras") >>

Catalogs == {SeedCatalog, OtherCatalog, <<>>}

RepeatBriefs ==
    { [ScenarioBrief EXCEPT !.espacios = sp, !.presupuesto = b, !.orientacion = o,
                            !.keys = IF o = None THEN @ ELSE @ \cup {"orientacion"}] :
        sp \in { <<>>, ScenarioBrief.espacios,
                 <<Name("cochera", "lower"), Name("baño", "lower")>> },
        b \in {150000, 800000},
        o \in {None, "sur"} }

InitRepeat ==
    /\ brief \in RepeatBriefs
    /\ videos \in Catalogs
    /\ Fresh

\* The package is returned and the generator is invoked again on the same
\* brief.
InvokeAgain ==
    /\ pc = "done"
    /\ ~earlier.done
    /\ earlier' = Returned(TRUE, plans, materials, viability, videos)
    /\ pc' = "start"
    /\ rooms' = <<>>
    /\ total_area' = 0
    /\ plans' = NoPlans
    /\ materials' = NoMaterials
    /\ viability' = NoViability
    /\ layout' = NoLayout
    /\ manual' = NoManual
    /\ alerts' = <<>>
    /\ UNCHANGED <<brief, videos, outside_core>>

\* The catalog is edited between the two invocations.
ReplaceCatalog ==
    /\ pc = "start"
    /\ earlier.done
    /\ videos = earlier.videos
    /\ videos' \in Catalogs \ {videos}
    /\ UNCHANGED <<brief, pc, rooms, total_area, plans, materials, viability, layout,
                   manual, alerts, earlier, outside_core>>

NextRepeat ==
    \/ Next
    \/ InvokeAgain
    \/ ReplaceCatalog

SpecRepeat == InitRepeat /\ [][NextRepeat]_vars

(* _build_manual on its own, over item lists of every length up to MaxItems
   (the estimate of the worked scenario among them) and every catalog. *)

ScenarioItems == estimate_materials(ScenarioBrief, 48).items

ItemLists == SeqsUpTo({ScenarioItems[i] : i \in 1..Len(ScenarioItems)}, MaxItems)

InitManual ==
    /\ brief \in {[ScenarioBrief EXCEPT !.material = m] : m \in Materials}
    /\ videos \in Catalogs
    /\ materials \in {[items |-> items, estimated_total |-> 0] : items \in ItemLists}
    /\ pc = "viability"
    /\ rooms = <<>>
    /\ total_area = 0
    /\ plans = NoPlans
    /\ viability = NoViability
    /\ layout = NoLayout
    /\ manual = NoManual
    /\ alerts = <<>>
    /\ earlier = NoEarlier
    /\ NoLabel
    /\ NoCalls
    /\ NoWeb

NextManual == BuildManual

SpecManual == InitManual /\ [][NextManual]_vars

(* _estimate_materials on its own, over every material and climate and two
   names no table knows, and over the total areas of zero to twelve rooms. *)

EstimateMaterialNames == DOMAIN MATERIAL_COSTS \cup {"lámina", "piedra"}

EstimateClimates == DOMAIN CLIMATE_FACTORS \cup {"polar", "tropical"}

EstimateAreas == {6, 10, 28, 48, 92, 144}

InitEstimate ==
    /\ brief \in {[ScenarioBrief EXCEPT !.material = m, !.clima = c] :
                    m \in EstimateMaterialNames, c \in EstimateClimates}
    /\ total_area \in EstimateAreas
    /\ pc = "plans"
    /\ videos = SeedCatalog
    /\ rooms = <<>>
    /\ plans = NoPlans
    /\ materials = NoMaterials
    /\ viability = NoViability
    /\ layout = NoLayout
    /\ manual = NoManual
    /\ alerts = <<>>
    /\ earlier = NoEarlier
    /\ NoLabel
    /\ NoCalls
    /\ NoWeb

NextEstimate == EstimateMaterials

SpecEstimate == InitEstimate /\ [][NextEstimate]_vars

(* The label of one room in _create_svg: _wrap_label on the room's name, then
   the fitting loop, one iteration per step.  The rooms are rooms the layout
   places; the names are lists of up to MaxWords words. *)

LabelWords == {"De", "Recámara", "Principal"}

LabelLayouts ==
    { layout_rooms(kinds, w, 15, None, SeedCatalog).rooms :
        kinds \in SeqsUpTo(LayoutKinds, 2) \ {<<>>}, w \in {6, 15} }

LabelRooms == UNION { {placed[i] : i \in 1..Len(placed)} : placed \in LabelLayouts }

InitLabel ==
    /\ label_room \in { [placed EXCEPT !.name = words] :
                          placed \in LabelRooms, words \in SeqsUpTo(LabelWords, MaxWords) }
    /\ label_lines = <<>>
    /\ font_size = 0
    /\ line_height = 0
    /\ brief = ScenarioBrief
    /\ videos = SeedCatalog
    /\ pc = "room"
    /\ rooms = <<>>
    /\ total_area = 0
    /\ plans = NoPlans
    /\ materials = NoMaterials
    /\ viability = NoViability
    /\ layout = NoLayout
    /\ manual = NoManual
    /\ alerts = <<>>
    /\ earlier = NoEarlier
    /\ NoCalls
    /\ NoWeb

\* The statements before the loop.
WrapLabel ==
    /\ pc = "room"
    /\ label_lines' = wrap_label(label_room.name, max_chars(label_room))
    /\ font_size' = label_room.font_size
    /\ line_height' = Max(label_room.font_size + 2, 14)
    /\ pc' = "fitting"
    /\ UNCHANGED <<label_room, brief, rooms, total_area, plans, materials, viability,
                   layout, manual, alerts, videos, earlier, call_vars, web_vars>>

\* One iteration of `while True`.
FitLabel ==
    /\ pc = "fitting"
    /\ IF label_fits(label_room, label_lines, font_size, line_height)
       THEN /\ pc' = "fitted"
            /\ UNCHANGED <<font_size, line_height>>
       ELSE /\ font_size' = shrink(font_size)
            /\ line_height' = Max(shrink(font_size) + 2, 13)
            /\ UNCHANGED pc
    /\ UNCHANGED <<label_room, label_lines, brief, rooms, total_area, plans, materials,
                   viability, layout, manual, alerts, videos, earlier, call_vars, web_vars>>

NextLabel ==
    \/ WrapLabel
    \/ FitLabel

\* The renderer runs on one thread: a loop that can iterate does.
SpecLabel == InitLabel /\ [][NextLabel]_vars /\ WF_vars(NextLabel)

(* Invocations of generate_project_package side by side (threads of the web
   server), each on its own brief, sharing the module-level list
   marketplace.SAFETY_ALERTS.  A list is held by reference: "SAFETY_ALERTS" is
   the shared list, "own" the list the invocation created itself.  The calls
   before _select_alerts read the catalogs and write locals only; they are one
   step.  An invocation that returned is followed by another on the same
   thread. *)

Callers == 1..MaxCalls

AlertBriefs ==
    { [ScenarioBrief EXCEPT !.necesidades = nd, !.clima = c, !.material = m] :
        nd \in {<<>>, <<Name("accesibilidad", "lower")>>},
        c \in {"templado", "húmedo"},
        m \in {"block", "madera"} }

NoPackage == [viability |-> NoViability, estimated_total |-> 0, alerts |-> None]

Call(form_data) ==
    [form_data |-> form_data, at |-> "start", base_alerts |-> None, alerts |-> None,
     own |-> <<>>, package |-> NoPackage]

\* The content of the list a reference of invocation `call` points to.
Read(call, ref) == IF ref = "SAFETY_ALERTS" THEN safety_alerts ELSE call.own

\* alerts = base_alerts: the same list under a second name.
same_list(ref) == ref

\* base_alerts[:] is a new list.
slice_copy(ref) == "own"

\* The three conditional appends, by the position of the invocation.
alert_condition(form_data) ==
    ("needs" :> (\E i \in 1..Len(form_data.necesidades) :
                    form_data.necesidades[i] = Name("accesibilidad", "lower")))
    @@ ("climate" :> (form_data.clima \in {"húmedo", "cálido"}))
    @@ ("material" :> (form_data.material = "madera"))

alert_text ==
    ("needs" :> "Asegura rampas con pendiente máxima de 8 grados y pasamanos dobles.")
    @@ ("climate" :> "Considera ventilaciones cruzadas para evitar acumulación de humedad.")
    @@ ("material" :>
            "Aplica tratamientos ignífugos y antihumedad en toda la madera expuesta.")

after_alert == ("needs" :> "climate") @@ ("climate" :> "material") @@ ("material" :> "return")

InitCalls ==
    /\ safety_alerts = SAFETY_ALERTS
    /\ calls \in [Callers -> {Call(form_data) : form_data \in AlertBriefs}]
    /\ brief = ScenarioBrief
    /\ videos = SeedCatalog
    /\ pc = "start"
    /\ rooms = <<>>
    /\ total_area = 0
    /\ plans = NoPlans
    /\ materials = NoMaterials
    /\ viability = NoViability
    /\ layout = NoLayout
    /\ manual = NoManual
    /\ alerts = <<>>
    /\ earlier = NoEarlier
    /\ NoLabel
    /\ NoWeb

\* What the calls before _select_alerts leave in the package, as far as it is
\* kept here: the viability and the estimated total.
package_core(form_data) ==
    [viability |->
        calculate_viability(
            form_data, build_room_program(form_data.espacios),
            estimate_materials(
                form_data,
                SumSeq([i \in 1..Len(build_room_program(form_data.espacios)) |->
                           build_room_program(form_data.espacios)[i].area]))),
     estimated_total |->
        estimate_materials(
            form_data,
            SumSeq([i \in 1..Len(build_room_program(form_data.espacios)) |->
                       build_room_program(form_data.espacios)[i].area])).estimated_total]

core_unchanged ==
    UNCHANGED <<brief, pc, rooms, total_area, plans, materials, viability, layout,
                manual, alerts, videos, earlier, label_vars, web_vars>>

\* generate_project_package up to the return statement.
GeneratePackage(caller) ==
    /\ calls[caller].at = "start"
    /\ calls' = [calls EXCEPT ![caller].at = "select",
                              ![caller].package = package_core(calls[caller].form_data)
                                                    @@ NoPackage]
    /\ UNCHANGED safety_alerts
    /\ core_unchanged

\* base_alerts = marketplace.get_safety_alerts()
GetSafetyAlerts(caller) ==
    /\ calls[caller].at = "select"
    /\ calls' = [calls EXCEPT ![caller].at = "base",
                              ![caller].base_alerts = "SAFETY_ALERTS"]
    /\ UNCHANGED safety_alerts
    /\ core_unchanged

\* alerts = base_alerts[:]
CopyAlerts(caller) ==
    /\ calls[caller].at = "base"
    /\ calls' = [calls EXCEPT ![caller].at = "needs",
                              ![caller].alerts = slice_copy(calls[caller].base_alerts),
                              ![caller].own = Read(calls[caller],
                                                   calls[caller].base_alerts)]
    /\ UNCHANGED safety_alerts
    /\ core_unchanged

\* One of the three `if ...: alerts.append(...)`.
AppendAlert(caller) ==
    LET call == calls[caller]
        appends == alert_condition(call.form_data)[call.at]
    IN  /\ call.at \in DOMAIN after_alert
        /\ safety_alerts' =
              IF appends /\ call.alerts = "SAFETY_ALERTS"
              THEN Append(safety_alerts, alert_text[call.at]) ELSE safety_alerts
        /\ calls' = [calls EXCEPT
                        ![caller].at = after_alert[call.at],
                        ![caller].own =
                            IF appends /\ call.alerts = "own"
                            THEN Append(call.own, alert_text[call.at]) ELSE call.own]
        /\ core_unchanged

\* return alerts, and the package with it.
ReturnPackage(caller) ==
    /\ calls[caller].at = "return"
    /\ calls' = [calls EXCEPT ![caller].at = "done",
                              ![caller].package.alerts = calls[caller].alerts]
    /\ UNCHANGED safety_alerts
    /\ core_unchanged

\* The thread takes its next request, on another brief.
InvokeNext(caller) ==
    /\ calls[caller].at = "done"
    /\ \E form_data \in AlertBriefs \ {calls[caller].form_data} :
          calls' = [calls EXCEPT ![caller] = Call(form_data)]
    /\ UNCHANGED safety_alerts
    /\ core_unchanged

NextCalls ==
    \E caller \in Callers :
        \/ GeneratePackage(caller)
        \/ GetSafetyAlerts(caller)
        \/ CopyAlerts(caller)
        \/ AppendAlert(caller)
        \/ ReturnPackage(caller)
        \/ InvokeNext(caller)

SpecCalls == InitCalls /\ [][NextCalls]_vars

(* ------------------------------------------------- web layer: accounts *)

\* Threads serving register side by side, and tokens drawn in one run.
MaxThreads == 2

MaxTokens == 4

Threads == 1..MaxThreads

\* What the web layer's steps never touch.
web_only ==
    UNCHANGED <<brief, pc, rooms, total_area, plans, materials, viability, layout,
                manual, alerts, videos, earlier, label_vars, call_vars>>

\* A payload's email: its address in lower case, whether it is typed in upper
\* case and whether blanks surround it.
Email(address, upper, padded) ==
    [address |-> address, upper |-> upper, padded |-> padded]

\* (payload.get("email") or "").strip().lower()
strip_lower(email) == Email(email.address, FALSE, FALSE)

\* email.lower()
lower(email) == [email EXCEPT !.upper = FALSE]

Addresses == {"ana@casa.mx", "luz@casa.mx"}

\* "@" in email
has_at(email) == email.address \in Addresses

\* werkzeug's salted hash, and its check against a password.
generate_password_hash(password) == [hashed |-> password]

check_password_hash(password_hash, password) == password_hash.hashed = password

\* secrets.token_urlsafe(32): a token no earlier draw returned.
token_urlsafe(drawn) == "token-" \o ToString(Cardinality(drawn) + 1)

\* The rows fetchone finds (none or one).
get_user_by_email(email, table) ==
    SelectSeq(table, LAMBDA row : row.email = lower(email))

\* INSERT INTO users: the row, with the next id.
create_user(email, password_hash, table) ==
    Append(table, [id |-> Len(table) + 1, email |-> lower(email),
                   password_hash |-> password_hash])

\* INSERT OR REPLACE INTO sessions, token being the primary key.
create_session(token, user_id, rows) ==
    {row \in rows : row.token # token} \cup {[token |-> token, user_id |-> user_id]}

\* sessions JOIN users WHERE sessions.token = ?: none or one user.
get_user_by_token(token, rows, table) ==
    IF token = "" THEN <<>>
    ELSE SelectSeq(table, LAMBDA user :
                       \E row \in rows : row.token = token /\ row.user_id = user.id)

revoke_nothing(token, rows) == rows

\* DELETE FROM sessions WHERE token = ?
revoke_session(token, rows) == {row \in rows : row.token # token}

\* The bearer token of the Authorization header (<<>> without one), else the
\* session cookie ("" without one).
extract_token(header, cookie) == IF header # <<>> THEN header[1] ELSE cookie

Reply(request, token, status) ==
    [request |-> request, token |-> token, status |-> status]

Idle == [at |-> "idle"]

\* register up to get_user_by_email: its two 400s, its 409, or on to the insert.
RegisterCheck(thread, payload_email, password) ==
    LET email == strip_lower(payload_email)
        answer(status) ==
            /\ response' = Reply("register", "", status) @@ [email |-> email]
            /\ UNCHANGED registering
    IN  /\ registering[thread] = Idle
        /\ IF email.address = "" \/ ~has_at(email) THEN answer(400)
           ELSE IF Len(password) < 8 THEN answer(400)
           ELSE IF get_user_by_email(email, users) # <<>> THEN answer(409)
           ELSE /\ registering' =
                      [registering EXCEPT ![thread] =
                          [at |-> "checked", email |-> email, password |-> password]]
                /\ UNCHANGED response
        /\ UNCHANGED <<tables, issued, revoked>>
        /\ web_only

\* database.create_user: the insert, which the UNIQUE constraint on
\* users.email refuses with sqlite3.IntegrityError (handle_generic_error
\* answers 500).
RegisterInsert(thread) ==
    LET call == registering[thread]
    IN  /\ call.at = "checked"
        /\ IF get_user_by_email(call.email, users) # <<>>
           THEN /\ response' = Reply("register", "", 500) @@ [email |-> call.email]
                /\ registering' = [registering EXCEPT ![thread] = Idle]
                /\ UNCHANGED users
           ELSE /\ users' = create_user(call.email,
                                        generate_password_hash(call.password), users)
                /\ registering' =
                      [registering EXCEPT ![thread] =
                          [at |-> "created", email |-> call.email,
                           user_id |-> Len(users) + 1]]
                /\ UNCHANGED response
        /\ UNCHANGED <<sessions, user_projects, manual_downloads, project_hires,
                       video_watch_history, files, issued, revoked>>
        /\ web_only

\* register from token_urlsafe on: the session and the 201.
RegisterSession(thread) ==
    LET call == registering[thread]
        token == token_urlsafe(issued)
    IN  /\ call.at = "created"
        /\ Cardinality(issued) < MaxTokens
        /\ sessions' = create_session(token, call.user_id, sessions)
        /\ issued' = issued \cup {[token |-> token, user_id |-> call.user_id]}
        /\ response' = Reply("register", "", 201)
                         @@ [email |-> call.email, user_id |-> call.user_id,
                             issued |-> token]
        /\ registering' = [registering EXCEPT ![thread] = Idle]
        /\ UNCHANGED <<users, user_projects, manual_downloads, project_hires,
                       video_watch_history, files, revoked>>
        /\ web_only

login(payload_email, password) ==
    LET user == get_user_by_email(strip_lower(payload_email), users)
        token == token_urlsafe(issued)
    IN  /\ IF user = <<>> \/ ~check_password_hash(user[1].password_hash, password)
           THEN /\ response' = Reply("login", "", 401)
                /\ UNCHANGED <<sessions, issued>>
           ELSE /\ Cardinality(issued) < MaxTokens
                /\ sessions' = create_session(token, user[1].id, sessions)
                /\ issued' = issued \cup {[token |-> token, user_id |-> user[1].id]}
                /\ response' = Reply("login", "", 200) @@ [issued |-> token]
        /\ UNCHANGED <<users, user_projects, manual_downloads, project_hires,
                       video_watch_history, files, revoked, registering>>
        /\ web_only

\* require_auth's refusal: the handler is not called.
Unauthorized(request, token) ==
    /\ response' = Reply(request, token, 401)
    /\ UNCHANGED <<tables, issued, revoked, registering>>
    /\ web_only

logout(header, cookie) ==
    LET token == extract_token(header, cookie)
    IN  IF get_user_by_token(token, sessions, users) = <<>>
        THEN Unauthorized("logout", token)
        ELSE /\ sessions' = revoke_session(token, sessions)
             /\ revoked' = revoked \cup {token}
             /\ response' = Reply("logout", token, 200)
             /\ UNCHANGED <<users, user_projects, manual_downloads, project_hires,
                            video_watch_history, files, issued, registering>>
             /\ web_only

(* --------------------------------------------------- web layer: videos *)

insert(row, history) == Append(history, row)

\* INSERT OR IGNORE under UNIQUE (user_id, video_id).
insert_or_ignore(row, history) ==
    IF \E i \in 1..Len(history) : history[i] = row THEN history
    ELSE Append(history, row)

record_video_watch(user_id, video_id, history) ==
    insert_or_ignore([user_id |-> user_id, video_id |-> video_id], history)

get_watched_video_ids(user_id, history) ==
    {history[i].video_id : i \in {j \in 1..Len(history) : history[j].user_id = user_id}}

total_videos(catalog) == Len(catalog)

\* round(watched / total, 2), in hundredths.
progress_of(watched, total) == RoundHalfEven(watched * 100, total)

\* track_video behind require_auth.  A video id the table videos does not hold
\* fails the foreign key of video_watch_history (sqlite3.IntegrityError,
\* answered 500 by handle_generic_error).
track_video(header, cookie, video_id) ==
    LET token == extract_token(header, cookie)
        user == get_user_by_token(token, sessions, users)
        history == record_video_watch(user[1].id, video_id, video_watch_history)
        watched == Cardinality(get_watched_video_ids(user[1].id, history))
        total == Max(total_videos(videos), 1)
    IN  IF user = <<>> THEN Unauthorized("track_video", token)
        ELSE /\ IF \A i \in 1..Len(videos) : videos[i].id # video_id
                THEN /\ response' = Reply("track_video", token, 500)
                     /\ UNCHANGED video_watch_history
                ELSE /\ video_watch_history' = history
                     /\ response' =
                           Reply("track_video", token, 201)
                             @@ [user_id |-> user[1].id, video_id |-> video_id,
                                 watched |-> watched, total |-> total,
                                 progress |-> progress_of(watched, total)]
             /\ UNCHANGED <<users, sessions, user_projects, manual_downloads,
                            project_hires, files, issued, revoked, registering>>
             /\ web_only

(* ---------------------------------------------- SpecRegister: accounts *)

PayloadEmails ==
    { Email("ana@casa.mx", FALSE, FALSE), Email("ana@casa.mx", TRUE, TRUE),
      Email("luz@casa.mx", FALSE, FALSE), Email("ana", FALSE, FALSE),
      Email("", FALSE, TRUE) }

Passwords == {"contraseña", "corta"}

\* The plan generator idle beside the web layer, the table videos holding the
\* catalog.
CoreIdle(catalog) ==
    /\ brief = ScenarioBrief
    /\ videos = catalog
    /\ pc = "start"
    /\ rooms = <<>>
    /\ total_area = 0
    /\ plans = NoPlans
    /\ materials = NoMaterials
    /\ viability = NoViability
    /\ layout = NoLayout
    /\ manual = NoManual
    /\ alerts = <<>>
    /\ earlier = NoEarlier
    /\ NoLabel
    /\ NoCalls

\* The database as init_db creates it, every thread about to serve a register.
InitRegister ==
    /\ CoreIdle(SeedCatalog)
    /\ users = <<>>
    /\ sessions = {}
    /\ user_projects = <<>>
    /\ manual_downloads = <<>>
    /\ project_hires = <<>>
    /\ video_watch_history = <<>>
    /\ files = {}
    /\ issued = {}
    /\ revoked = {}
    /\ registering = [thread \in Threads |-> Idle]
    /\ response = NoResponse

NextRegister ==
    \/ \E thread \in Threads, email \in PayloadEmails, password \in Passwords :
          RegisterCheck(thread, email, password)
    \/ \E thread \in Threads : RegisterInsert(thread)
    \/ \E thread \in Threads : RegisterSession(thread)

SpecRegister == InitRegister /\ [][NextRegister]_vars

(* ---------------------------------------------- SpecSessions: sessions *)

\* Tokens a client can present: the ones issued, none, and one never issued.
Presented == {row.token : row \in issued} \cup {"", "forged"}

\* A request's Authorization header and session cookie.
Credentials ==
    {<<<<>>, token>> : token \in Presented}
      \cup {<<<<token>>, other>> : token \in Presented, other \in {"", "forged"}}

SessionVideoIds == {1}

\* The session a registration opens.
Registered(user_id) == [token |-> token_urlsafe(1..(user_id - 1)), user_id |-> user_id]

\* Two accounts registered one after the other, each holding the session its
\* registration opened.
TwoAccounts ==
    /\ users = create_user(Email("luz@casa.mx", FALSE, FALSE),
                           generate_password_hash("contraseña"),
                           create_user(Email("ana@casa.mx", FALSE, FALSE),
                                       generate_password_hash("contraseña"), <<>>))
    /\ sessions = {Registered(1), Registered(2)}
    /\ issued = {Registered(1), Registered(2)}
    /\ user_projects = <<>>
    /\ manual_downloads = <<>>
    /\ project_hires = <<>>
    /\ video_watch_history = <<>>
    /\ files = {}
    /\ revoked = {}
    /\ registering = <<>>
    /\ response = NoResponse

InitSessions == CoreIdle(SeedCatalog) /\ TwoAccounts

NextSessions ==
    \/ \E email \in PayloadEmails, password \in Passwords : login(email, password)
    \/ \E request \in Credentials : logout(request[1], request[2])
    \/ \E request \in Credentials, video_id \in SessionVideoIds :
          track_video(request[1], request[2], video_id)

SpecSessions == InitSessions /\ [][NextSessions]_vars

(* ------------------------------------------------- web layer: projects *)

\* Rows of user_projects, and rows of manual_downloads and of project_hires,
\* written in one run.
MaxProjects == 1

MaxRecords == 1

\* json.dumps on the way into a TEXT column and json.loads on the way out.
json_dumps(value) == [json |-> value]

json_loads(text) == text.json

\* storage_dir / f"manual_{user_id}_{project_id}.pdf"
manual_file(user_id, project_id) == <<"manual", user_id, project_id>>

\* generate_project_package raises on the validated dict.
package_raises(form_data) ==
    \E step \in DOMAIN Subscripts :
        error_of(step, form_data,
                 SumSeq([i \in 1..Len(build_room_program(get(form_data, "espacios", <<>>)))
                            |-> build_room_program(
                                    get(form_data, "espacios", <<>>))[i].area])) # None

\* The fields create_project adds to the package for the response.
response_only(project_id) ==
    [project_id |-> project_id, manual_url |-> <<"/api/projects", project_id, "manual/pdf">>,
     success |-> TRUE, message |-> "Proyecto generado correctamente"]

get_any_project(project_id, user_id, table) ==
    SelectSeq(table, LAMBDA row : row.id = project_id)

\* SELECT ... FROM user_projects WHERE id = ? AND user_id = ?: none or one row.
get_user_project(project_id, user_id, table) ==
    SelectSeq(table, LAMBDA row : row.id = project_id /\ row.user_id = user_id)

\* UPDATE user_projects SET manual_path = ? WHERE id = ?
set_project_manual_path(project_id, manual_path, table) ==
    [i \in 1..Len(table) |->
        IF table[i].id = project_id THEN [table[i] EXCEPT !.manual_path = manual_path]
        ELSE table[i]]

\* The ids of the providers seed_data leaves, as far as requests name them.
PROVIDERS == {1}

\* A handler's answer to an authenticated request that writes nothing.
Answer(reply) ==
    /\ response' = reply
    /\ UNCHANGED <<tables, issued, revoked, registering>>
    /\ web_only

\* create_project behind require_auth: a ValueError of the validation is
\* answered 400 (handle_validation_error), any other exception 500
\* (handle_generic_error).
create_project(header, cookie, payload) ==
    LET token == extract_token(header, cookie)
        user == get_user_by_token(token, sessions, users)
        form_data == validate_project_payload(payload)
        project_id == Len(user_projects) + 1
        reply(status) ==
            Reply("create_project", token, status)
              @@ [user_id |-> user[1].id, payload |-> payload]
    IN  IF user = <<>> THEN Unauthorized("create_project", token)
        ELSE IF ValueError(payload) THEN Answer(reply(400))
        ELSE IF TypeError(payload) THEN Answer(reply(500))
        ELSE IF package_raises(form_data) \/ KeyError(form_data, {"ciudad"})
             THEN Answer(reply(500))
        ELSE /\ Len(user_projects) < MaxProjects
             /\ user_projects' =
                   set_project_manual_path(
                       project_id, manual_file(user[1].id, project_id),
                       Append(user_projects,
                              [id |-> project_id, user_id |-> user[1].id,
                               title |-> "Proyecto " \o form_data.ciudad,
                               form_data |-> json_dumps(form_data),
                               plan_data |-> json_dumps(package_core(form_data)),
                               viability |-> package_core(form_data).viability.score,
                               manual_path |-> None]))
             /\ files' = files \cup {manual_file(user[1].id, project_id)}
             /\ response' = reply(201)
                              @@ [body |-> response_only(project_id)
                                             @@ package_core(form_data)]
             /\ UNCHANGED <<users, sessions, manual_downloads, project_hires,
                            video_watch_history, issued, revoked, registering>>
             /\ web_only

\* preview_plan: the package, and nothing else.
preview_plan(header, cookie, payload) ==
    LET token == extract_token(header, cookie)
        user == get_user_by_token(token, sessions, users)
        form_data == validate_project_payload(payload)
        reply(status) ==
            Reply("preview_plan", token, status)
              @@ [user_id |-> user[1].id, payload |-> payload]
    IN  IF user = <<>> THEN Unauthorized("preview_plan", token)
        ELSE IF ValueError(payload) THEN Answer(reply(400))
        ELSE IF TypeError(payload) THEN Answer(reply(500))
        ELSE IF package_raises(form_data) THEN Answer(reply(500))
        ELSE Answer(reply(200)
                      @@ [body |-> [success |-> TRUE] @@ package_core(form_data)])

get_project(header, cookie, project_id) ==
    LET token == extract_token(header, cookie)
        user == get_user_by_token(token, sessions, users)
        project == get_user_project(project_id, user[1].id, user_projects)
        reply(status) ==
            Reply("get_project", token, status)
              @@ [user_id |-> user[1].id, project_id |-> project_id]
    IN  IF user = <<>> THEN Unauthorized("get_project", token)
        ELSE IF project = <<>> THEN Answer(reply(404))
        ELSE Answer(reply(200) @@ [title |-> project[1].title])

\* download_manual: the PDF is written again when its file is gone, and the
\* download is recorded.
download_manual(header, cookie, project_id) ==
    LET token == extract_token(header, cookie)
        user == get_user_by_token(token, sessions, users)
        project == get_user_project(project_id, user[1].id, user_projects)
        reply(status) ==
            Reply("download_manual", token, status)
              @@ [user_id |-> user[1].id, project_id |-> project_id]
    IN  IF user = <<>> THEN Unauthorized("download_manual", token)
        ELSE IF project = <<>> THEN Answer(reply(404))
        ELSE /\ Len(manual_downloads) < MaxRecords
             /\ IF project[1].manual_path \in files
                THEN UNCHANGED <<user_projects, files>>
                ELSE /\ files' = files \cup {manual_file(user[1].id, project_id)}
                     /\ user_projects' =
                           set_project_manual_path(
                               project_id, manual_file(user[1].id, project_id),
                               user_projects)
             /\ manual_downloads' =
                   Append(manual_downloads,
                          [user_id |-> user[1].id, project_id |-> project_id])
             /\ response' = reply(200)
             /\ UNCHANGED <<users, sessions, project_hires, video_watch_history,
                            issued, revoked, registering>>
             /\ web_only

\* create_hire; an id the payload lacks is 0 here (`not provider_id`).
create_hire(header, cookie, provider_id, project_id) ==
    LET token == extract_token(header, cookie)
        user == get_user_by_token(token, sessions, users)
        reply(status) ==
            Reply("create_hire", token, status)
              @@ [user_id |-> user[1].id, project_id |-> project_id,
                  provider_id |-> provider_id]
    IN  IF user = <<>> THEN Unauthorized("create_hire", token)
        ELSE IF provider_id = 0 \/ project_id = 0 THEN Answer(reply(400))
        ELSE IF provider_id \notin PROVIDERS THEN Answer(reply(404))
        ELSE IF get_user_project(project_id, user[1].id, user_projects) = <<>>
             THEN Answer(reply(404))
        ELSE /\ Len(project_hires) < MaxRecords
             /\ project_hires' =
                   Append(project_hires,
                          [user_id |-> user[1].id, project_id |-> project_id,
                           provider_id |-> provider_id])
             /\ response' = reply(201)
             /\ UNCHANGED <<users, sessions, user_projects, manual_downloads,
                            video_watch_history, files, issued, revoked, registering>>
             /\ web_only

\* Between two requests the storage directory loses a manual.
RemoveManual(path) ==
    /\ path \in files
    /\ files' = files \ {path}
    /\ response' = NoResponse
    /\ UNCHANGED <<users, sessions, user_projects, manual_downloads, project_hires,
                   video_watch_history, issued, revoked, registering>>
    /\ web_only

(* ---------------------------------------------- SpecProjects: projects *)

WithBoundary(payload, boundary) ==
    [boundary |-> boundary]
      @@ [payload EXCEPT !.keys = payload.keys \cup {"boundary"}]

Square == Geometry("Polygon", Coordinates(TRUE, <<Ring(TRUE, <<1, 2, 3, 4, 1>>)>>))

ScenarioPayload == Payload(ScenarioBrief, ScenarioBrief.keys, {})

\* The scenario's payload as it is, with an outline, and with one thing wrong:
\* a required field missing, a scalar outside its domain, a list field given
\* as null, a list holding an unknown name or a number, an outline that is no
\* polygon or has an empty ring, a scalar given as null.
ProjectPayloads ==
    { ScenarioPayload,
      WithBoundary(ScenarioPayload, Feature(Square, {"name"})),
      Payload(ScenarioBrief, ScenarioBrief.keys \ {"clima"}, {}),
      Payload([ScenarioBrief EXCEPT !.clima = "polar"], ScenarioBrief.keys, {}),
      Payload(ScenarioBrief, ScenarioBrief.keys, {"espacios"}),
      Payload([ScenarioBrief EXCEPT !.espacios = <<Name("alberca", "lower")>>],
              ScenarioBrief.keys, {}),
      Payload([ScenarioBrief EXCEPT !.espacios = <<Number(5)>>],
              ScenarioBrief.keys, {}),
      WithBoundary(ScenarioPayload, Geometry("Point", Coordinates(TRUE, <<>>))),
      WithBoundary(ScenarioPayload,
                   Geometry("Polygon", Coordinates(TRUE, <<Ring(TRUE, <<>>)>>))),
      WithBoundary(ScenarioPayload, NotDict),
      Payload(ScenarioBrief, ScenarioBrief.keys, {"clima"}) }

\* The session cookie of either account, or none.
ProjectCredentials ==
    {<<<<>>, token>> : token \in {Registered(1).token, Registered(2).token, ""}}

ProjectIds == 0..MaxProjects

ProviderIds == {0, 1, 9}

NextProjects ==
    \/ \E request \in ProjectCredentials :
          create_project(request[1], request[2], ScenarioPayload)
    \/ \E request \in ProjectCredentials, project_id \in ProjectIds :
          get_project(request[1], request[2], project_id)
    \/ \E request \in ProjectCredentials, project_id \in ProjectIds :
          download_manual(request[1], request[2], project_id)
    \/ \E request \in ProjectCredentials, provider_id \in ProviderIds,
          project_id \in ProjectIds :
          create_hire(request[1], request[2], provider_id, project_id)
    \/ \E user_id \in 1..Len(users), project_id \in 1..MaxProjects :
          RemoveManual(manual_file(user_id, project_id))

\* Two accounts registered, each holding the session its registration opened,
\* and no project yet.
SpecProjects == InitSessions /\ [][NextProjects]_vars

(* ------------------------------------------- SpecCreate: project payloads *)

NextCreate ==
    \/ \E request \in ProjectCredentials, payload \in ProjectPayloads :
          create_project(request[1], request[2], payload)
    \/ \E request \in ProjectCredentials, payload \in ProjectPayloads :
          preview_plan(request[1], request[2], payload)

SpecCreate == InitSessions /\ [][NextCreate]_vars

(* ------------------------------------------------ SpecVideos: watches *)

\* Video ids a request may name: the catalog's two and one outside it.
WatchVideoIds == {OtherCatalog[i].id : i \in 1..Len(OtherCatalog)} \cup {99}

\* The session cookie of either account.
WatchCredentials ==
    {<<<<>>, token>> : token \in {Registered(1).token, Registered(2).token}}

\* Two accounts and a catalog of two videos.
InitVideos == CoreIdle(OtherCatalog) /\ TwoAccounts

NextVideos ==
    \E request \in WatchCredentials, video_id \in WatchVideoIds :
        track_video(request[1], request[2], video_id)

SpecVideos == InitVideos /\ [][NextVideos]_vars

(* ------------------------------------------------------------ properties *)

\* The pipeline has produced its plans (and what follows them).
HasPlans == pc \in {"plans", "materials", "viability", "manual", "done"}

HasViability == pc \in {"viability", "manual", "done"}

\* Two placed rectangles [x, x+width] x [y, y+length] share interior points.
Overlap(a, b) ==
    /\ a.position.x < b.position.x + b.dimensions.width
    /\ b.position.x < a.position.x + a.dimensions.width
    /\ a.position.y < b.position.y + b.dimensions.length
    /\ b.position.y < a.position.y + a.dimensions.length

NoOverlap(placed) ==
    \A i, j \in 1..Len(placed) : i # j => ~Overlap(placed[i], placed[j])

\* A placed room whose recorded width is below the width first derived for it.
Clipped(placed, source) == placed.dimensions.width * Cm < first_width(source)

\* C1: in the layout _layout_rooms returns, no two distinct rooms have
\* rectangles (recorded position and dimensions) with overlapping interiors.
C1_NoOverlap == pc = "layout" => NoOverlap(layout.rooms)

\* A layout with a clipped room in one row and two rooms sharing another row.
C1_Witness ==
    /\ pc = "layout"
    /\ Len(layout.rooms) = 3
    /\ \E i \in 1..3 : Clipped(layout.rooms[i], sort_rooms(rooms)[i])
    /\ \E i, j \in 1..3 :
          /\ i # j
          /\ layout.rooms[i].position.y = layout.rooms[j].position.y

\* Areas in square centimetres.
PlacedArea(placed) ==
    SumSeq([i \in 1..Len(placed) |->
               placed[i].dimensions.width * placed[i].dimensions.length])

SourceArea(rs) == SumSeq([i \in 1..Len(rs) |-> rs[i].area * 10000])

\* The most that rounding both sides of every room to the centimetre can
\* change the summed products: half a centimetre on each side, per room.
RoundingTolerance(placed) ==
    SumSeq([i \in 1..Len(placed) |->
               (placed[i].dimensions.width + placed[i].dimensions.length) \div 2 + 1])

\* The footprint of the smallest room the layout draws: 2.6 m x 2.6 m.
MinFootprint == (MinRoomSide \div Cm) * (MinRoomSide \div Cm)

\* C2 as stated: for every brief, the sum of the placed rooms' areas (recorded
\* width x length) equals the sum of the source Room areas within rounding.
C2_AreaPreserved ==
    HasPlans =>
        \A o \in 1..Len(plans.options) :
            Abs(PlacedArea(plans.options[o].rooms) - SourceArea(rooms))
                <= RoundingTolerance(plans.options[o].rooms)

\* C2 as amended: the placed sum is never below the source sum (within
\* rounding), and equals it within rounding when no source room is smaller
\* than the minimum footprint of 6.76 square metres.
C2_AreaPreservedAboveMinFootprint ==
    HasPlans =>
        \A o \in 1..Len(plans.options) :
            LET placed == plans.options[o].rooms
            IN  /\ PlacedArea(placed) >= SourceArea(rooms) - RoundingTolerance(placed)
                /\ (\A i \in 1..Len(rooms) : rooms[i].area * 10000 >= MinFootprint)
                      => Abs(PlacedArea(placed) - SourceArea(rooms))
                            <= RoundingTolerance(placed)

\* Plans for two rooms, none below the minimum footprint, whose recorded
\* sides do not multiply to exactly the source area.
C2_Witness ==
    /\ HasPlans
    /\ Len(rooms) = 2
    /\ \A i \in 1..Len(rooms) : rooms[i].area * 10000 >= MinFootprint
    /\ PlacedArea(plans.options[1].rooms) # SourceArea(rooms)

\* C3: the compatibility score _score_template returns lies in [0, 1], for
\* every catalog template and every brief.
C3_CompatibilityInUnitInterval ==
    HasPlans =>
        /\ Len(plans.options) = Len(PLAN_TEMPLATES)
        /\ \A o \in 1..Len(plans.options) :
              /\ plans.options[o].score >= 0
              /\ plans.options[o].score <= Unit

\* Plans in which one template reaches the top of the interval with a budget
\* above 1.0 times its cost, and another stays well below.
C3_Witness ==
    /\ HasPlans
    /\ \E o \in 1..Len(plans.options) :
          /\ plans.options[o].score = Unit
          /\ brief.presupuesto > PLAN_TEMPLATES[plans.options[o].idx].base_cost * total_area
    /\ \E o \in 1..Len(plans.options) : plans.options[o].score <= Unit \div 2

\* C4: the options _generate_blueprints returns are in descending order of
\* compatibility, options of equal compatibility keep the catalog order, and
\* `selected` is the first option of the sorted list.
C4_SortedStableSelected ==
    HasPlans =>
        /\ \A i, j \in 1..Len(plans.options) :
              i < j =>
                /\ plans.options[i].compatibility >= plans.options[j].compatibility
                /\ plans.options[i].compatibility = plans.options[j].compatibility
                      => plans.options[i].idx < plans.options[j].idx
        /\ {plans.options[i].idx : i \in 1..Len(plans.options)} = 1..Len(PLAN_TEMPLATES)
        /\ plans.selected = plans.options[1]

\* Plans the sort had to reorder (the catalog's second template leads) and in
\* which the two leading options tie.
C4_Witness ==
    /\ HasPlans
    /\ plans.options[1].idx = 2
    /\ plans.options[1].compatibility = plans.options[2].compatibility

\* C5: the viability score lies in [0, 1].
C5_ViabilityInUnitInterval ==
    HasViability => viability.score >= 0 /\ viability.score <= 100

\* A result at 1.0 whose weighted sum exceeds 1.0, so that the cap acts.
C5_Witness ==
    /\ HasViability
    /\ viability.score = 100
    /\ viability_score_uncapped(brief, rooms, materials) > 10 * Unit

\* generate_project_package's viability for a brief, as a function of it.
viability_of(form_data) ==
    LET rs == build_room_program(form_data.espacios)
        area == SumSeq([i \in 1..Len(rs) |-> rs[i].area])
    IN  calculate_viability(form_data, rs, estimate_materials(form_data, area))

\* C6: with everything else fixed, the viability score is non-decreasing in
\* the budget: a larger budget never gets a lower score.
C6_MonotoneInBudget ==
    HasViability =>
        \A b2 \in ALLOWED_PRESUPUESTO :
            b2 >= brief.presupuesto
                => viability_of([brief EXCEPT !.presupuesto = b2]).score >= viability.score

\* A result that a larger budget strictly improves.
C6_Witness ==
    /\ HasViability
    /\ \E b2 \in ALLOWED_PRESUPUESTO :
          /\ b2 > brief.presupuesto
          /\ viability_of([brief EXCEPT !.presupuesto = b2]).score > viability.score

\* The brief with one more requested room.
WithRoom(form_data, text) ==
    [form_data EXCEPT !.espacios = Append(@, Name(text, "lower"))]

\* The space factor of the enlarged brief is not above its 1.2 cap.
UpToCap(form_data) ==
    5 * Len(build_room_program(form_data.espacios)) <= 6 * (form_data.personas + 1)

\* The budget is at least 1.2 times the estimated cost of the brief.
BudgetCovers(form_data) ==
    LET rs == build_room_program(form_data.espacios)
        area == SumSeq([i \in 1..Len(rs) |-> rs[i].area])
    IN  form_data.presupuesto * 100 * 5 >= 6 * total_cost(form_data, area)

\* C7 as stated: with everything else fixed, adding a room to the room list
\* never lowers the viability score while the room count is within the
\* family-size cap.
C7_MonotoneInRoomCount ==
    HasViability =>
        \A text \in ALLOWED_ESPACIOS :
            UpToCap(WithRoom(brief, text))
                => viability_of(WithRoom(brief, text)).score >= viability.score

\* C7 as amended: adding a room never lowers the score when the budget is at
\* least 1.2 times the estimated cost of the enlarged program.
C7_MonotoneInRoomCountWhenBudgetCovers ==
    HasViability =>
        \A text \in ALLOWED_ESPACIOS :
            (UpToCap(WithRoom(brief, text)) /\ BudgetCovers(WithRoom(brief, text)))
                => viability_of(WithRoom(brief, text)).score >= viability.score

\* A result that an added room, still covered by the budget, strictly improves.
C7_Witness ==
    /\ HasViability
    /\ brief.espacios # <<>>
    /\ \E text \in ALLOWED_ESPACIOS :
          /\ UpToCap(WithRoom(brief, text))
          /\ BudgetCovers(WithRoom(brief, text))
          /\ viability_of(WithRoom(brief, text)).score > viability.score

\* C8: the worked scenario yields programmed area 48, structural cost 115200,
\* finishes 28800, installations 20736, contingency 8064, total 172800,
\* viability 1.0 and the message of the >= 0.85 band.
C8_Scenario ==
    (HasViability /\ brief = ScenarioBrief) =>
        /\ total_area = 48
        /\ structure_cost(brief, total_area) = 11520000
        /\ finishes_cost(brief, total_area) = 2880000
        /\ installations_cost(brief, total_area) = 2073600
        /\ contingency(brief, total_area) = 806400
        /\ materials.estimated_total = 17280000
        /\ viability.score = 100
        /\ viability.message = VIABILITY_MESSAGES[1][2]

\* The pipeline has run to the viability of the scenario brief.
C8_Witness == HasViability /\ brief = ScenarioBrief /\ Len(rooms) = 4

\* C9: _build_room_program never returns an empty list; an empty input gives
\* exactly one room of area 28 and type social, a non-empty input gives no
\* extra room.
C9_NeverEmpty ==
    pc = "rooms" =>
        /\ Len(rooms) >= 1
        /\ brief.espacios = <<>> =>
              /\ Len(rooms) = 1
              /\ rooms[1].area = 28
              /\ rooms[1].type = "social"
        /\ brief.espacios # <<>> => Len(rooms) = Len(brief.espacios)

\* The room program built from an empty list of names.
C9_Witness == pc = "rooms" /\ brief.espacios = <<>> /\ Len(rooms) = 1

\* C10: for a non-empty list of names the result has one Room per name, in
\* input order; a name that is a preset in any letter case gets the preset's
\* area and type, any other name gets area 10 and type general in its place.
C10_OneRoomPerNameInOrder ==
    (pc = "rooms" /\ brief.espacios # <<>>) =>
        /\ Len(rooms) = Len(brief.espacios)
        /\ \A i \in 1..Len(rooms) :
              LET given == brief.espacios[i]
              IN  /\ rooms[i].name = Title(given)
                  /\ given.text \in DOMAIN ROOM_PRESETS =>
                        /\ rooms[i].area = ROOM_PRESETS[given.text].area
                        /\ rooms[i].type = ROOM_PRESETS[given.text].type
                  /\ given.text \notin DOMAIN ROOM_PRESETS =>
                        /\ rooms[i].area = 10
                        /\ rooms[i].type = "general"

\* A program with an unknown name between two presets written in upper and
\* title case.
C10_Witness ==
    /\ pc = "rooms"
    /\ Len(brief.espacios) = 3
    /\ brief.espacios[1] = Name("sala", "upper")
    /\ brief.espacios[2].text \notin DOMAIN ROOM_PRESETS
    /\ brief.espacios[3] = Name("cocina", "title")
    /\ rooms[2].type = "general"
    /\ rooms[3].type = "wet"

(* ------------------------------------------------------------------- C11 *)

\* C11: for every brief validate_project_payload accepts,
\* generate_project_package completes without raising: no call of it ends in
\* an exception (a missing key, a division by zero).
C11_PackageWithoutRaising == pc \notin {"KeyError", "ZeroDivisionError"}

\* What does hold: a brief that holds every key the core subscripts gets its
\* whole package.
C11_CompleteBriefReturns ==
    (pc \in DOMAIN Subscripts /\ UNION {Subscripts[p] : p \in DOMAIN Subscripts} \subseteq brief.keys)
        => Returns(pc)

\* An accepted payload with a null required field has reached the call that
\* subscripts it.
C11_Witness ==
    /\ pc = "KeyError"
    /\ REQUIRED_FIELDS \ brief.keys # {}

(* ------------------------------------------------------------------- C12 *)

\* The markup of every option, in the order of the options.
Svgs(blueprints) ==
    [i \in 1..Len(blueprints.options) |-> blueprints.options[i].svg]

\* The numeric outputs of a package: compatibility scores, room positions and
\* dimensions, material total, viability score.
Numbers(blueprints, mats, viab) ==
    [compatibility |->
        [i \in 1..Len(blueprints.options) |-> blueprints.options[i].compatibility],
     geometry |->
        [i \in 1..Len(blueprints.options) |->
            [j \in 1..Len(blueprints.options[i].rooms) |->
                <<blueprints.options[i].rooms[j].position,
                  blueprints.options[i].rooms[j].dimensions>>]],
     estimated_total |-> mats.estimated_total,
     score |-> viab.score]

\* C12: a second invocation on the same brief returns the same markup for
\* every option and the same numeric outputs as the first, whatever the video
\* catalog holds at either invocation.
C12_Deterministic ==
    (pc = "done" /\ earlier.done) =>
        /\ Svgs(plans) = Svgs(earlier.plans)
        /\ Numbers(plans, materials, viability)
             = Numbers(earlier.plans, earlier.materials, earlier.viability)

\* A second invocation has completed under another catalog than the first,
\* and its plans differ from the first's (in the videos of the room guides).
C12_Witness ==
    /\ pc = "done"
    /\ earlier.done
    /\ earlier.videos # videos
    /\ plans # earlier.plans

(* ------------------------------------------------------------------- C13 *)

\* The one-to-one correspondences between n positions.
Bijections(n) ==
    {f \in [1..n -> 1..n] : \A i, j \in 1..n : i # j => f[i] # f[j]}

\* C13: _layout_rooms returns exactly one placed room per input Room, each
\* carrying the name and the area of its source room, however little space the
\* envelope offers.  (The area recorded is max(area, 6.0); no room the program
\* builds is smaller than 6 m2.)
C13_NoRoomDropped ==
    pc = "layout" =>
        /\ Len(layout.rooms) = Len(rooms)
        /\ \E f \in Bijections(Len(rooms)) :
              \A i \in 1..Len(rooms) :
                  /\ layout.rooms[i].name = rooms[f[i]].name
                  /\ layout.rooms[i].area = rooms[f[i]].area

\* Three rooms have been laid out on a terrain of width 0, one of them
\* narrowed to what was left of its row.
C13_Witness ==
    /\ pc = "layout"
    /\ brief.ancho_terreno = 0
    /\ Len(rooms) = 3
    /\ Len(layout.rooms) = 3
    /\ \E i \in 1..3 : Clipped(layout.rooms[i], sort_rooms(rooms)[i])

(* ------------------------------------------------------------------- C14 *)

\* C14: whatever the terrain (0 and sizes under the margin included) and the
\* room list, the envelope width and the width and length the layout metrics
\* report are each at least 6.0 m.
C14_EnvelopeAtLeastSix ==
    pc = "layout" =>
        /\ layout.metrics.envelope_width >= 600
        /\ layout.metrics.width >= 600
        /\ layout.metrics.length >= 600

\* A single 6 m2 room on a terrain of 0 x 0: the envelope width is the floor
\* itself.
C14_Witness ==
    /\ pc = "layout"
    /\ brief.ancho_terreno = 0
    /\ brief.largo_terreno = 0
    /\ Len(rooms) = 1
    /\ rooms[1].area = 6
    /\ layout.metrics.envelope_width = 600

(* ------------------------------------------------------------------- C15 *)

IsPrefix(s, t) == Len(s) <= Len(t) /\ s = SubSeq(t, 1, Len(s))

\* C15: _build_manual gives exactly three steps, numbered 1, 2, 3, for the
\* beginner, the intermediate and the advanced level in this order; the first
\* carries the first 2 material items, the second the first 3, the third all
\* of them, so each list is a prefix of the next.
C15_ThreeStepsWithPrefixes ==
    pc = "manual" =>
        LET steps == manual.steps
            items == materials.items
        IN  /\ Len(steps) = 3
            /\ \A i \in 1..3 : steps[i].step = i
            /\ steps[1].description
                 = "Preparación del terreno, trazo y cimentación con drenajes adecuados."
            /\ steps[2].description
                 = "Levantamiento de muros, instalaciones básicas y losas ligeras."
            /\ steps[3].description
                 = "Acabados, impermeabilización y checklist final de seguridad."
            /\ Len(steps[1].materials) = Min(2, Len(items))
            /\ Len(steps[2].materials) = Min(3, Len(items))
            /\ steps[3].materials = items
            /\ IsPrefix(steps[1].materials, steps[2].materials)
            /\ IsPrefix(steps[2].materials, steps[3].materials)

\* The manual has been built from the four items of the scenario's estimate:
\* the three lists differ.
C15_Witness ==
    /\ pc = "manual"
    /\ materials.items = ScenarioItems
    /\ Len(manual.steps[1].materials) = 2
    /\ Len(manual.steps[2].materials) = 3
    /\ Len(manual.steps[3].materials) = 4

(* ------------------------------------------------------------------- C16 *)

\* C16: for every area, material and climate the total is the structural cost
\* plus 25 %, 18 % and 7 % of it, the structural cost being area times the unit
\* cost of the material (2500 for a material no table knows) times the factor
\* of the climate (1.0 for a climate no table knows); four line items are
\* returned.  (The total is in centavos, the climate factor in hundredths.)
C16_TotalOfFourShares ==
    pc = "materials" =>
        LET unit_cost == IF brief.material \in DOMAIN MATERIAL_COSTS
                         THEN MATERIAL_COSTS[brief.material] ELSE 2500
            factor == IF brief.clima \in DOMAIN CLIMATE_FACTORS
                      THEN CLIMATE_FACTORS[brief.clima] ELSE 100
            structural == total_area * unit_cost * factor
            percent == structural \div 100
        IN  /\ structural = percent * 100
            /\ materials.estimated_total
                 = structural + 25 * percent + 18 * percent + 7 * percent
            /\ Len(materials.items) = 4
            /\ materials.items[1].unit_cost = unit_cost

\* The estimate has been made for a material and a climate no table knows.
C16_Witness ==
    /\ pc = "materials"
    /\ brief.material = "lámina"
    /\ brief.clima = "polar"
    /\ materials.estimated_total = total_area * 2500 * 150

(* ------------------------------------------------------------------- C17 *)

\* clamp(x, lo, hi)
Clamp(x, lo, hi) == Max(lo, Min(x, hi))

\* The formula of the claim for one template, in millionths.
ClaimedScore(template) ==
    LET c == IF brief.clima \in template.climates THEN 400000 ELSE 200000
        m == IF brief.material \in template.materials THEN 400000 ELSE 150000
        ratio == DivFix(brief.presupuesto, template.base_cost * total_area)
    IN  Clamp(c + m + (2 * Min(ratio, Unit)) \div 10
              - 50000 * Abs(brief.plantas - template.max_levels), 0, Unit)

\* C17: for every template and brief the value of _score_template is
\* clamp(c + m + 0.2 * min(budget / (base_cost * total_area), 1)
\*       - 0.05 * |levels - max_levels|, 0, 1),
\* c being 0.4 for a climate of the template and 0.2 otherwise, m 0.4 for a
\* material of the template and 0.15 otherwise.
C17_ScoreFormula ==
    HasPlans =>
        \A o \in 1..Len(plans.options) :
            plans.options[o].score = ClaimedScore(PLAN_TEMPLATES[plans.options[o].idx])

\* Plans in which the budget ratio of one template is cut at 1 and that of
\* another is not, for a brief with fewer levels than a template allows.
C17_Witness ==
    /\ HasPlans
    /\ \E o \in 1..Len(plans.options) :
          brief.presupuesto > PLAN_TEMPLATES[plans.options[o].idx].base_cost * total_area
    /\ \E o \in 1..Len(plans.options) :
          /\ brief.presupuesto < PLAN_TEMPLATES[plans.options[o].idx].base_cost * total_area
          /\ brief.plantas < PLAN_TEMPLATES[plans.options[o].idx].max_levels

(* ------------------------------------------------------------------- C18 *)

\* The message the descending threshold table assigns to a score in
\* hundredths.
TableMessage(score) ==
    IF score >= 85 THEN VIABILITY_MESSAGES[1][2]
    ELSE IF score >= 70 THEN VIABILITY_MESSAGES[2][2]
    ELSE IF score >= 55 THEN VIABILITY_MESSAGES[3][2]
    ELSE VIABILITY_MESSAGES[4][2]

\* C18: the message of every result _calculate_viability returns is the one
\* the threshold table (>= 0.85, >= 0.70, >= 0.55, else the lowest) assigns to
\* the score of that same result.
C18_MessageOfReturnedScore ==
    HasViability => viability.message = TableMessage(viability.score)

\* A result whose score reads 0.85 and whose message is not the table's first.
C18_Witness ==
    /\ HasViability
    /\ viability.score = 85
    /\ viability.message = VIABILITY_MESSAGES[2][2]

(* ------------------------------------------------------------------- C19 *)

Priority ==
    ("social" :> 1) @@ ("service" :> 2) @@ ("wet" :> 3) @@ ("private" :> 4)
    @@ ("outdoor" :> 5) @@ ("general" :> 6)

\* The names of the rooms of one type, in the order of the list.
NamesOfType(names, types, type) ==
    LET kept == {i \in 1..Len(names) : types[i] = type}
        Nth(k) == CHOOSE i \in kept : Cardinality({j \in kept : j < i}) = k - 1
    IN  [k \in 1..Cardinality(kept) |-> names[Nth(k)]]

\* C20: the placed rooms come in the order social, service, wet, private,
\* outdoor, general of their types, and the rooms of one type in the order
\* they had in the input.
C20_OrderedByTypeStable ==
    pc = "layout" =>
        LET placed == layout.rooms
        IN  /\ \A i, j \in 1..Len(placed) :
                  i < j => Priority[placed[i].room_type] <= Priority[placed[j].room_type]
            /\ \A type \in DOMAIN Priority :
                  NamesOfType([i \in 1..Len(placed) |-> placed[i].name],
                              [i \in 1..Len(placed) |-> placed[i].room_type], type)
                  = NamesOfType([i \in 1..Len(rooms) |-> rooms[i].name],
                                [i \in 1..Len(rooms) |-> rooms[i].type], type)

\* A wet room requested before two social rooms is placed after them, and
\* the two social rooms keep their order.
C20_Witness ==
    /\ pc = "layout"
    /\ Len(rooms) = 3
    /\ rooms[1].type = "wet"
    /\ rooms[2].name = Name("salón", "title")
    /\ rooms[3].name = Name("sala", "title")
    /\ layout.rooms[1].name = Name("salón", "title")
    /\ layout.rooms[2].name = Name("sala", "title")
    /\ layout.rooms[3].room_type = "wet"

(* ------------------------------------------------------------------- C21 *)

\* C21: for every room list and terrain size, every room _layout_rooms places
\* is at least 2.4 m wide and lies horizontally inside the envelope: its
\* recorded x is >= 0 and x + width <= the envelope width (a room wider than
\* what its row has left is wrapped and, if still too wide, clipped).
C21_FitsEnvelopeWidth ==
    pc = "layout" =>
        \A i \in 1..Len(layout.rooms) :
            /\ layout.rooms[i].dimensions.width >= MinClipWidth \div Cm
            /\ layout.rooms[i].position.x >= 0
            /\ layout.rooms[i].position.x + layout.rooms[i].dimensions.width
                   <= layout.metrics.envelope_width

\* A layout in which a room did not fit beside the room before it, was wrapped
\* to a new row and, still wider than the row, was clipped.
C21_Witness ==
    /\ pc = "layout"
    /\ \E i \in 2..Len(layout.rooms) :
          /\ layout.rooms[i].position.y > layout.rooms[i - 1].position.y
          /\ layout.rooms[i].position.x = Corridor \div (2 * Cm)
          /\ Clipped(layout.rooms[i], sort_rooms(rooms)[i])
          /\ ~Clipped(layout.rooms[i - 1], sort_rooms(rooms)[i - 1])

(* ------------------------------------------------------------------- C22 *)

\* C22: for every room list and terrain size, every placed rectangle lies
\* inside the bounds the returned metrics report: 0 <= x, x + width <=
\* metrics.width, 0 <= y and y + length <= metrics.length.
C22_InsideMetrics ==
    pc = "layout" =>
        \A i \in 1..Len(layout.rooms) :
            /\ 0 <= layout.rooms[i].position.x
            /\ layout.rooms[i].position.x + layout.rooms[i].dimensions.width
                   <= layout.metrics.width
            /\ 0 <= layout.rooms[i].position.y
            /\ layout.rooms[i].position.y + layout.rooms[i].dimensions.length
                   <= layout.metrics.length

\* A layout of several rows on a terrain of length 0, whose reported length is
\* set by the end of a room of the last row (half a corridor beyond it).
C22_Witness ==
    /\ pc = "layout"
    /\ brief.largo_terreno = 0
    /\ \E i \in 2..Len(layout.rooms) :
          /\ layout.rooms[i].position.y > layout.rooms[1].position.y
          /\ layout.rooms[i].position.y + layout.rooms[i].dimensions.length
                + Corridor \div (2 * Cm) = layout.metrics.length

(* ------------------------------------------------------------------- C23 *)

\* The distance between two numbers.
Distance(a, b) == IF a >= b THEN a - b ELSE b - a

\* C23: every room the layout can produce has its door on the south side and
\* its window on the north side (one of each: the model keeps the single
\* element of each list); to two decimals, i.e. within a centimetre, the door
\* is 35 % and the window 45 % of the room's recorded width, and both are
\* centred (offset = half the width).
C23_DoorAndWindowShares ==
    pc = "layout" =>
        \A i \in 1..Len(layout.rooms) :
            LET room == layout.rooms[i]
            IN  /\ room.door.side = "sur"
                /\ room.window.side = "norte"
                /\ Distance(100 * room.door.width, 35 * room.dimensions.width) < 100
                /\ Distance(100 * room.window.width, 45 * room.dimensions.width) < 100
                /\ Distance(2 * room.door.offset, room.dimensions.width) <= 1
                /\ room.window.offset = room.door.offset

\* A layout with a room of the least width the layout draws (2.6 m, door
\* 0.91 m, window 1.17 m) and a clipped room.
C23_Witness ==
    /\ pc = "layout"
    /\ \E i \in 1..Len(layout.rooms) :
          /\ layout.rooms[i].dimensions.width = MinRoomSide \div Cm
          /\ layout.rooms[i].door.width = 91
          /\ layout.rooms[i].window.width = 117
    /\ \E i \in 1..Len(layout.rooms) : Clipped(layout.rooms[i], sort_rooms(rooms)[i])

(* ------------------------------------------------------------------- C24 *)

RECURSIVE Flatten(_)
Flatten(lines) == IF lines = <<>> THEN <<>> ELSE Head(lines) \o Flatten(Tail(lines))

\* The label as the renderer writes it: the font size within [12, 22], at
\* most three lines, and the words of the lines, in order, the words of the
\* room's name.
LabelWritten ==
    /\ pc \in {"fitting", "fitted"} =>
          /\ font_size \in 12..22
          /\ Len(label_lines) <= 3
          /\ Flatten(label_lines) = label_room.name

\* C24: for every placed room the label-fitting loop of the renderer
\* terminates, the font size never leaves [12, 22], and the wrapped name has
\* at most 3 lines whose words, joined in order, are the words of the name.
C24_LabelLoopTerminates == []LabelWritten /\ <>(pc = "fitted")

\* A name of four words that wrapped into four lines and was merged into
\* three, fitted in the smallest room the layout draws (2.6 m x 2.6 m).
C24_Witness ==
    /\ pc = "fitted"
    /\ Len(label_room.name) = 4
    /\ Len(wrap_words(<<>>, <<Head(label_room.name)>>, Tail(label_room.name),
                      max_chars(label_room))) = 4
    /\ Len(label_lines) = 3
    /\ Len(label_lines[3]) = 2
    /\ label_room.dimensions.length = MinRoomSide \div Cm
    /\ font_size \in 12..22

(* ------------------------------------------------------------------- C25 *)

\* The alerts an invocation returned, as whoever holds the package reads them.
ReturnedAlerts(call) == Read(call, call.package.alerts)

\* C25: invocations of generate_project_package are independent: in every
\* state of every interleaving the shared list SAFETY_ALERTS holds what the
\* module defines (the other catalogs are never assigned), and the alerts and
\* the other outputs of an invocation that returned are those of the
\* invocation run alone on its brief; nothing _select_alerts appends reaches
\* the base list.
C25_InvocationsIndependent ==
    /\ safety_alerts = SAFETY_ALERTS
    /\ \A caller \in DOMAIN calls :
          calls[caller].at = "done" =>
              /\ ReturnedAlerts(calls[caller]) = select_alerts(calls[caller].form_data)
              /\ calls[caller].package.viability
                    = package_core(calls[caller].form_data).viability
              /\ calls[caller].package.estimated_total
                    = package_core(calls[caller].form_data).estimated_total

\* One invocation has returned seven alerts (all three appended) while another,
\* on a brief that appends none, is between its copy and its return.
C25_Witness ==
    \E a, b \in DOMAIN calls :
        /\ calls[a].at = "done"
        /\ Len(ReturnedAlerts(calls[a])) = 7
        /\ calls[b].at \in {"needs", "climate", "material", "return"}
        /\ calls[b].own = SAFETY_ALERTS
        /\ select_alerts(calls[b].form_data) = SAFETY_ALERTS

(* ------------------------------------------------------------ C26 *)

\* A token authenticates exactly while its session row exists: from its issue
\* by register or login until a logout is served with it.
LiveSessions ==
    /\ \A row \in issued :
          get_user_by_token(row.token, sessions, users) =
              IF row.token \in revoked THEN <<>> ELSE <<users[row.user_id]>>
    /\ \A row \in sessions : row \in issued

\* A request presenting a token a logout was served with is answered 401 and
\* writes nothing.
RevokedRejected ==
    response'.token \in revoked =>
        /\ response'.status = 401
        /\ UNCHANGED <<tables, issued, revoked>>

\* C26: once logout has been served with token t, every later request to a
\* protected endpoint presenting t (as bearer header or as cookie) is answered
\* 401 and its handler does nothing, while the other tokens of the same user,
\* issued by separate logins, keep authenticating; a token authenticates only
\* between its issue by register/login and its revocation.
C26_SessionRevocation == []LiveSessions /\ [][RevokedRejected]_vars

\* A revoked token has just been refused on track_video while a token of the
\* same user from a separate login is still live.
C26_Witness ==
    /\ response.request = "track_video"
    /\ response.status = 401
    /\ response.token \in revoked
    /\ \E mine \in issued, other \in sessions :
          /\ mine.token = response.token
          /\ other.user_id = mine.user_id
          /\ other.token # mine.token
          /\ get_user_by_token(other.token, sessions, users) # <<>>

(* ------------------------------------------------------------ C27 *)

\* The response answers an authenticated get_project, download_manual or
\* create_hire.
OnProject(reply) ==
    /\ reply.request \in {"get_project", "download_manual", "create_hire"}
    /\ reply.status # 401

\* The project the request named belonged to another user when it arrived.
ForeignProject(reply) ==
    /\ OnProject(reply)
    /\ \E i \in 1..Len(user_projects) :
          /\ user_projects[i].id = reply.project_id
          /\ user_projects[i].user_id # reply.user_id

\* A request that was served (200 or 201) named a project of the requester.
OwnProjectsOnly ==
    OnProject(response) /\ response.status \in {200, 201} =>
        \E i \in 1..Len(user_projects) :
            /\ user_projects[i].id = response.project_id
            /\ user_projects[i].user_id = response.user_id

OneUserPerEmail ==
    \A i, j \in 1..Len(users) :
        strip_lower(users[i].email) = strip_lower(users[j].email) => i = j

\* The response ends a register whose fields passed the checks (not a 400)
\* and whose email had an account this request did not create.
AccountExisted(reply) ==
    /\ reply.request = "register"
    /\ reply.status # 400
    /\ \E i \in 1..Len(users) :
          /\ users[i].email = reply.email
          /\ ~(reply.status = 201 /\ reply.user_id = users[i].id)

\* C28: after any interleaving of register requests at most one user exists
\* per trimmed, lower-cased email, and a register for an email that already
\* has an account responds 409 and creates neither a user nor a session, also
\* when two registrations for one email run side by side between the
\* existence check and the insert.
C28_AccountUniqueness ==
    /\ []OneUserPerEmail
    /\ [][AccountExisted(response') =>
              response'.status = 409 /\ UNCHANGED <<users, sessions>>]_vars

\* Two registrations for one email passed the existence check side by side;
\* the first created the account and the second has just been answered 500.
C28_Witness ==
    /\ response.request = "register"
    /\ response.status = 500
    /\ \E i \in 1..Len(users) : users[i].email = response.email
    /\ OneUserPerEmail

(* ------------------------------------------------------------ C29 *)

\* After a 201 of create_project the row of the new project holds the package
\* as it was before the response-only fields were added, and its manual.
StoredWithoutResponseFields ==
    response.request = "create_project" /\ response.status = 201 =>
        /\ response.body.project_id \in 1..Len(user_projects)
        /\ DOMAIN json_loads(user_projects[response.body.project_id].plan_data)
              = DOMAIN response.body \ DOMAIN response_only(response.body.project_id)
        /\ \A key \in DOMAIN json_loads(user_projects[response.body.project_id].plan_data) :
              json_loads(user_projects[response.body.project_id].plan_data)[key]
                  = response.body[key]
        /\ user_projects[response.body.project_id].manual_path \in files

\* An authenticated create_project whose payload validate_project_payload
\* does not return on is answered 400 and writes nothing.
RejectedAnswered400 ==
    /\ response'.request = "create_project"
    /\ response'.status # 401
    /\ raised(response'.payload) # None
    => response'.status = 400 /\ UNCHANGED tables

PreviewWritesNothing ==
    response'.request = "preview_plan" => UNCHANGED tables

\* C29: a payload validate_project_payload rejects (required field missing,
\* value outside its domain, list field that is no list, malformed boundary)
\* makes create_project respond 400 with no project row, no manual PDF and no
\* manual path written; preview_plan persists nothing for any payload; on
\* success create_project stores the project before the response-only fields
\* (project_id, manual_url, success, message) exist, and the stored plan data
\* does not hold them.
C29_RejectedPayloads ==
    /\ []StoredWithoutResponseFields
    /\ [][RejectedAnswered400 /\ PreviewWritesNothing]_vars

\* create_project has just answered 500 to a payload whose list "espacios"
\* holds a number; nothing is stored.
C29_Witness ==
    /\ response.request = "create_project"
    /\ response.status = 500
    /\ TypeError(response.payload)
    /\ \E i \in 1..Len(response.payload.espacios) :
          ~is_str(response.payload.espacios[i])
    /\ user_projects = <<>>
    /\ files = {}

(* ------------------------------------------------------------ C30 *)

Watch(user_id, video_id) == [user_id |-> user_id, video_id |-> video_id]

\* No (user, video) pair is recorded twice; the pair a served request named
\* is recorded once; the counts reported are the user's watched set against
\* the catalog, and the progress lies between 0 and 1 (in hundredths).
WatchedOnceAndBounded ==
    /\ \A i, j \in 1..Len(video_watch_history) :
          video_watch_history[i] = video_watch_history[j] => i = j
    /\ response.request = "track_video" /\ response.status = 201 =>
          /\ Cardinality({i \in 1..Len(video_watch_history) :
                             video_watch_history[i]
                                 = Watch(response.user_id, response.video_id)}) = 1
          /\ response.watched
                = Cardinality(get_watched_video_ids(response.user_id,
                                                    video_watch_history))
          /\ response.watched <= total_videos(videos)
          /\ response.total = total_videos(videos)
          /\ response.progress \in 0..100
          /\ response.progress = RoundHalfEven(100 * response.watched, response.total)

\* A step leaves the watched set of every user but the requester as it was.
OthersUntouched ==
    \A i \in 1..Len(users) :
        (response'.request = "track_video" /\ response'.status = 201
             => users[i].id # response'.user_id)
        => get_watched_video_ids(users[i].id, video_watch_history')
             = get_watched_video_ids(users[i].id, video_watch_history)

\* C30: recording one (user, video) watch any number of times leaves exactly
\* one history entry, one user's watches never change another user's watched
\* set, and after any sequence of track_video calls the reported watched
\* count is at most the number of videos, so the progress lies in [0, 1].
C30_WatchTracking == []WatchedOnceAndBounded /\ [][OthersUntouched]_vars

\* A user who has watched the whole catalog has just repeated a watch that
\* was recorded before the latest entry of the history: it is answered with
\* progress 1 and is still recorded once, while the other user has watched
\* one video.
C30_Witness ==
    /\ response.request = "track_video"
    /\ response.status = 201
    /\ response.watched = response.total
    /\ response.progress = 100
    /\ video_watch_history[Len(video_watch_history)]
          # Watch(response.user_id, response.video_id)
    /\ \E i \in 1..Len(users) :
          /\ users[i].id # response.user_id
          /\ Cardinality(get_watched_video_ids(users[i].id, video_watch_history)) = 1

====
